---- MODULE Spec2Model ----
(***************************************************************************)
(* A model of the reconciliation core of americans-abroad:                 *)
(*   backend/services/matchTrackerFD.js  (class MatchTrackerFD)            *)
(*   backend/services/footballData.js    (class FootballDataService)       *)
(*                                                                         *)
(* Strings are modelled as sequences of characters, each character a       *)
(* one-element TLA+ string; "o_uml" stands for the single code point       *)
(* U+00F6 (o with diaeresis).  A value that may be null or undefined is    *)
(* Null (the empty tuple) or Some(v); a null and an empty string coincide, *)
(* and the code treats the two alike wherever the model has both.          *)
(*                                                                         *)
(* The module holds several specifications over one set of variables;      *)
(* each specification drives the variables of one part of the program and  *)
(* leaves the others at their initial values:                              *)
(*   SpecTeam   teamMatches applied to pairs of names                      *)
(*   SpecMinutes  calculateMinutesPlayed applied to event lists            *)
(*   SpecSched  startPolling / pollForUpdates / stopPolling                *)
(*   SpecCache  fetchFromApi's cache under the poll ticks                  *)
(*   SpecCacheFair  SpecCache with the fairness of the event loop         *)
(*   SpecToday  updateMatchData with parsePlayerEvents                     *)
(*   SpecLast   updateFotMobData, updateLastGameData and                   *)
(*              getPlayerRecentMatchFromFotMob                             *)
(*   SpecPipe   updateMatchData followed by updateMatchDataFromFotMob      *)
(*   SpecTiers  the tiers of updateLastGameData within a pass              *)
(*   SpecCycle  the initial run and the ticks, updateNextGameData and      *)
(*              getAllMatchData                                            *)
(*   SpecNext   updateNextGameData and loadNextGamesCache over the hours   *)
(*   SpecOutage the five stages while requests to the feeds fail           *)
(*   SpecFresh  the age of the entries of this.fotmobData                  *)
(*   SpecDetail the getMatchDetails requests of a pass                     *)
(***************************************************************************)
EXTENDS Integers, Sequences, FiniteSets, TLC

VARIABLES
  \* ---- SpecTeam: the arguments and the result of a teamMatches call
  tmApi, tmOur, tmRes,
  \* ---- the tracker object (constructor, 15-32)
  players,        \* this.players: id -> [id, name, team, fotmobId]
  matchData,      \* this.matchData: id -> Null or Some(TodayMatch)
  \* ---- upstream: Football-Data.org
  fdToday,        \* the fixtures of today, in the order of the response
  fdDetails,      \* the match detail of fixture PhiTor as upstream has it
  \* ---- upstream: FotMob
  fmTeam,         \* team name -> the answer of getTeamData
  fmRecent,       \* player id -> the answer of getPlayerRecentMatches
  \* ---- the clock and the LastGame state of the tracker
  now,            \* Date.now(), in hours
  fdRecent,       \* the fixtures of the last ten days, as in the response
  lastGameData,   \* this.lastGameData: id -> Null or Some(LastGame)
  fotmobData,     \* this.fotmobData: id -> Null or Some([timestamp, lastMatch])
  fotmobCacheFile, \* the content of data/fotmobCache.json
  manualStats,    \* this.manualStats: id -> Null or Some(recentMatches)
  \* ---- the scheduler (startPolling, pollForUpdates, stopPolling)
  isPolling,      \* this.isPolling
  pollInterval,   \* this.pollInterval: Null or Some(id of a timer)
  timers,         \* the interval timers not cleared: [id, owner, ms]
  closures,       \* per startPolling call: its position and closure variables
  ticks,          \* per startPolling call: its pollForUpdates runs in flight
  \* ---- the Football-Data.org adapter and the cycle that calls it
  apiCache,       \* this.api.cache: endpoint -> Null or Some([data, timestamp])
  nowMs,          \* Date.now(), in milliseconds
  currentInterval, \* the closure variable currentInterval of startPolling
  nextFire,       \* Null, or Some(the time the interval timer fires next)
  call,           \* Null, or Some(the updateMatchData call in flight)
  \* ---- the today pipeline run again and again
  responses,      \* Null, or Some(what upstream answered to the last run)
  \* ---- NextGame and the exposed records
  nextGameData,   \* this.nextGameData: id -> Null or Some(NextGame)
  nextGamesCacheFile, \* the content of data/nextGamesCache.json
  fdAhead,        \* the fixtures of the next two weeks, as in the response
  cycles,         \* the poll cycles completed since startPolling
  exposed,        \* Null, or Some(what getAllMatchData returned last)
  \* ---- SpecMinutes: the arguments and the result of a calculateMinutesPlayed call
  cmEvents, cmMatchMinute, cmResult

Null == << >>
Some(v) == <<v>>
Val(o) == o[1]

teamVars == <<tmApi, tmOur, tmRes>>
minVars == <<cmEvents, cmMatchMinute, cmResult>>
todayVars == <<players, matchData, fdToday, fdDetails>>
fmVars == <<fmTeam>>
lastVars ==
  <<fmRecent, now, fdRecent, lastGameData, fotmobData, fotmobCacheFile,
    manualStats>>
schedVars == <<isPolling, pollInterval, timers, closures, ticks>>
cacheVars == <<apiCache, nowMs, currentInterval, nextFire, call>>
pipeVars == <<responses>>
cycleVars == <<nextGameData, nextGamesCacheFile, fdAhead, cycles, exposed>>
vars ==
  <<teamVars, minVars, todayVars, fmVars, schedVars, lastVars, cacheVars,
    pipeVars, cycleVars>>

\* the values of the variables a specification does not drive
TeamIdle == tmApi = Null /\ tmOur = Null /\ tmRes = Null
MinIdle == cmEvents = Null /\ cmMatchMinute = Null /\ cmResult = Null
TodayIdle ==
  players = Null /\ matchData = Null /\ fdToday = Null /\ fdDetails = Null
FmIdle == fmTeam = Null
SchedIdle ==
  /\ isPolling = Null /\ pollInterval = Null /\ timers = Null
  /\ closures = Null /\ ticks = Null

LastIdle ==
  /\ fmRecent = Null /\ now = Null /\ fdRecent = Null /\ lastGameData = Null
  /\ fotmobData = Null /\ fotmobCacheFile = Null /\ manualStats = Null

CacheIdle ==
  /\ apiCache = Null /\ nowMs = Null /\ currentInterval = Null
  /\ nextFire = Null /\ call = Null

PipeIdle == responses = Null

CycleIdle ==
  /\ nextGameData = Null /\ nextGamesCacheFile = Null /\ fdAhead = Null
  /\ cycles = Null /\ exposed = Null

\* the variables the actions of one specification leave alone
notTeam == <<minVars, todayVars, fmVars, schedVars, lastVars, cacheVars, pipeVars, cycleVars>>
notToday == <<teamVars, minVars, fmVars, schedVars, lastVars, cacheVars, pipeVars, cycleVars>>
notSched == <<teamVars, minVars, lastVars, cacheVars, pipeVars, cycleVars>>
notLast == <<teamVars, minVars, schedVars, cacheVars, pipeVars, cycleVars>>
notCache == <<teamVars, minVars, fmVars, schedVars, lastVars, pipeVars, cycleVars>>
notPipe == <<teamVars, minVars, schedVars, lastVars, cacheVars, cycleVars>>
notCycle == <<teamVars, minVars, schedVars, cacheVars, pipeVars>>

(***************************************************************************)
(* Characters and the String methods the code uses                         *)
(***************************************************************************)
UpperLetters ==
  <<"A","B","C","D","E","F","G","H","I","J","K","L","M",
    "N","O","P","Q","R","S","T","U","V","W","X","Y","Z">>

LowerLetters ==
  <<"a","b","c","d","e","f","g","h","i","j","k","l","m",
    "n","o","p","q","r","s","t","u","v","w","x","y","z">>

AZ == { LowerLetters[i] : i \in 1..26 }

Digits == {"0","1","2","3","4","5","6","7","8","9"}

\* \w of a JavaScript regular expression: [A-Za-z0-9_]
IsWordChar(c) ==
  c \in AZ \cup { UpperLetters[i] : i \in 1..26 } \cup Digits \cup {"_"}

\* \s restricted to the characters of the model's names
IsSpace(c) == c = " "

\* String.prototype.toLowerCase, one character
LowerChar(c) ==
  IF \E i \in 1..26 : UpperLetters[i] = c
  THEN LowerLetters[CHOOSE i \in 1..26 : UpperLetters[i] = c]
  ELSE c

toLowerCase(s) == [i \in 1..Len(s) |-> LowerChar(s[i])]

\* .normalize('NFD').replace(/[U+0300-U+036F]/g, ''): the base letter stays,
\* the combining mark goes
stripAccents(s) == [i \in 1..Len(s) |-> IF s[i] = "o_uml" THEN "o" ELSE s[i]]

\* String.prototype.startsWith
startsWith(s, p) == Len(p) <= Len(s) /\ SubSeq(s, 1, Len(p)) = p

\* String.prototype.includes
includes(s, p) ==
  \E i \in 0..(Len(s) - Len(p)) : SubSeq(s, i + 1, i + Len(p)) = p

\* the alternatives of /\b(fc|cf|ac|as|afc|sc|sv|bv|ssc)\b/gi
suffixTokens ==
  { <<"f","c">>, <<"c","f">>, <<"a","c">>, <<"a","s">>, <<"a","f","c">>,
    <<"s","c">>, <<"s","v">>, <<"b","v">>, <<"s","s","c">> }

\* the end of the maximal run of word characters that starts at i
RECURSIVE RunEnd(_, _)
RunEnd(s, i) ==
  IF i < Len(s) /\ IsWordChar(s[i + 1]) THEN RunEnd(s, i + 1) ELSE i

\* .replace(/\b(fc|cf|ac|as|afc|sc|sv|bv|ssc)\b/gi, ''): both ends of a match
\* are word boundaries and every alternative is made of word characters, so a
\* match is a maximal run of word characters equal to one alternative
RECURSIVE stripSuffixTokensFrom(_, _)
stripSuffixTokensFrom(s, i) ==
  IF i > Len(s) THEN << >>
  ELSE IF IsWordChar(s[i])
       THEN LET j == RunEnd(s, i)
                run == SubSeq(s, i, j)
            IN (IF toLowerCase(run) \in suffixTokens THEN << >> ELSE run)
               \o stripSuffixTokensFrom(s, j + 1)
       ELSE <<s[i]>> \o stripSuffixTokensFrom(s, i + 1)

stripSuffixTokens(s) == stripSuffixTokensFrom(s, 1)

\* .replace(/1\./g, '')
RECURSIVE stripOneDotFrom(_, _)
stripOneDotFrom(s, i) ==
  IF i > Len(s) THEN << >>
  ELSE IF i < Len(s) /\ s[i] = "1" /\ s[i + 1] = "."
       THEN stripOneDotFrom(s, i + 2)
       ELSE <<s[i]>> \o stripOneDotFrom(s, i + 1)

stripOneDot(s) == stripOneDotFrom(s, 1)

\* .replace(/[^a-z\s]/g, '')
keepLettersAndSpaces(s) == SelectSeq(s, LAMBDA c : c \in AZ \/ IsSpace(c))

\* .replace(/\s+/g, ' ')
RECURSIVE collapseSpacesFrom(_, _)
collapseSpacesFrom(s, i) ==
  IF i > Len(s) THEN << >>
  ELSE IF IsSpace(s[i])
       THEN IF i > 1 /\ IsSpace(s[i - 1])
            THEN collapseSpacesFrom(s, i + 1)
            ELSE <<" ">> \o collapseSpacesFrom(s, i + 1)
       ELSE <<s[i]>> \o collapseSpacesFrom(s, i + 1)

collapseSpaces(s) == collapseSpacesFrom(s, 1)

\* String.prototype.trim
RECURSIVE trim(_)
trim(s) ==
  IF s = << >> THEN s
  ELSE IF IsSpace(s[1]) THEN trim(Tail(s))
  ELSE IF IsSpace(s[Len(s)]) THEN trim(SubSeq(s, 1, Len(s) - 1))
  ELSE s

\* String.prototype.split(' '): the sequence of the pieces between the spaces
\* (the empty string splits into one empty piece)
RECURSIVE splitFrom(_, _, _)
splitFrom(s, i, cur) ==
  IF i > Len(s) THEN <<cur>>
  ELSE IF s[i] = " " THEN <<cur>> \o splitFrom(s, i + 1, << >>)
  ELSE splitFrom(s, i + 1, Append(cur, s[i]))

split(s) == splitFrom(s, 1, << >>)

(***************************************************************************)
(* teamMatches (matchTrackerFD.js 174-227)                                 *)
(***************************************************************************)
genericWords ==
  { <<"u","n","i","t","e","d">>, <<"c","i","t","y">>, <<"t","o","w","n">>,
    <<"a","t","h","l","e","t","i","c">>, <<"s","p","o","r","t","i","n","g">>,
    <<"c","l","u","b">>, <<"r","e","a","l">>, <<"r","o","v","e","r","s">>,
    <<"w","a","n","d","e","r","e","r","s">>, <<"a","l","b","i","o","n">>,
    <<"h","o","t","s","p","u","r">>, <<"v","i","l","l","a">>,
    <<"f","o","r","e","s","t">>, <<"c","o","u","n","t","y">>,
    <<"p","a","l","a","c","e">>, <<"h","a","m">>, <<"d","y","n","a","m","o">>,
    <<"o","l","y","m","p","i","c">>, <<"o","l","y","m","p","i","q","u","e">> }

normalizeWithSpaces(name) ==
  trim(collapseSpaces(keepLettersAndSpaces(stripOneDot(
    stripSuffixTokens(stripAccents(toLowerCase(name)))))))

\* normalizeWithSpaces(name).replace(/\s/g, '')
normalize(name) == SelectSeq(normalizeWithSpaces(name), LAMBDA c : ~IsSpace(c))

\* .split(' ').filter(w => w.length > 3 && !genericWords.has(w))
significantWords(withSpaces) ==
  SelectSeq(split(withSpaces), LAMBDA w : Len(w) > 3 /\ w \notin genericWords)

\* the rule for a roster name of one significant word (215-219)
singleWordRule(apiWords, ourWords) ==
  \E i \in 1..Len(apiWords) : apiWords[i] = ourWords[1]

\* the rule for a roster name of several significant words (224-226)
multiWordRule(apiWords, ourWords) ==
  \A j \in 1..Len(ourWords) :
    \E i \in 1..Len(apiWords) :
      \/ apiWords[i] = ourWords[j]
      \/ startsWith(apiWords[i], ourWords[j])
      \/ startsWith(ourWords[j], apiWords[i])

teamMatches(apiTeamName, ourTeamName) ==
  IF apiTeamName = Null \/ ourTeamName = Null
  THEN FALSE
  ELSE LET api == normalize(apiTeamName)
           our == normalize(ourTeamName)
           apiWords == significantWords(normalizeWithSpaces(apiTeamName))
           ourWords == significantWords(normalizeWithSpaces(ourTeamName))
       IN IF api = our THEN TRUE
          ELSE IF Len(ourWords) = 0 \/ Len(apiWords) = 0 THEN api = our
          ELSE IF Len(ourWords) = 1 THEN singleWordRule(apiWords, ourWords)
          ELSE multiWordRule(apiWords, ourWords)

(***************************************************************************)
(* Names: the roster and feed spellings the checks run over                *)
(***************************************************************************)
WestBromwichAlbion == <<"W","e","s","t"," ","B","r","o","m","w","i","c","h"," ","A","l","b","i","o","n">>
WestHam == <<"W","e","s","t"," ","H","a","m">>
FCKoelnUmlaut == <<"1","."," ","F","C"," ","K","o_uml","l","n">>
FCKoln == <<"F","C"," ","K","o","l","n">>
ACMilan == <<"A","C"," ","M","i","l","a","n">>
InterMilan == <<"I","n","t","e","r"," ","M","i","l","a","n">>
Inter == <<"I","n","t","e","r">>
BorussiaDortmund == <<"B","o","r","u","s","s","i","a"," ","D","o","r","t","m","u","n","d">>
BorussiaMgladbach == <<"B","o","r","u","s","s","i","a"," ","M","o_uml","n","c","h","e","n","g","l","a","d","b","a","c","h">>
TorontoFC == <<"T","o","r","o","n","t","o"," ","F","C">>
NorwichCity == <<"N","o","r","w","i","c","h"," ","C","i","t","y">>
PhiladelphiaUnion == <<"P","h","i","l","a","d","e","l","p","h","i","a"," ","U","n","i","o","n">>
ManchesterUnited == <<"M","a","n","c","h","e","s","t","e","r"," ","U","n","i","t","e","d">>
ManchesterCity == <<"M","a","n","c","h","e","s","t","e","r"," ","C","i","t","y">>

TeamNames ==
  { WestBromwichAlbion, WestHam, FCKoelnUmlaut, FCKoln, ACMilan, InterMilan,
    Inter, BorussiaDortmund, BorussiaMgladbach, TorontoFC, NorwichCity,
    PhiladelphiaUnion, ManchesterUnited, ManchesterCity }

\* teamMatches on the names of the model, evaluated once and looked up after
teamMatchesTable ==
  [a \in TeamNames |-> [b \in TeamNames |-> teamMatches(a, b)]]

teamMatchesOf(apiTeamName, ourTeamName) ==
  IF apiTeamName \in TeamNames /\ ourTeamName \in TeamNames
  THEN teamMatchesTable[apiTeamName][ourTeamName]
  ELSE teamMatches(apiTeamName, ourTeamName)

(***************************************************************************)
(* The roster (players.json, loaded by loadPlayers) and the names the      *)
(* feeds use for players                                                   *)
(***************************************************************************)
QuinnSullivan == <<"Q","u","i","n","n"," ","S","u","l","l","i","v","a","n">>
CavanSullivan == <<"C","a","v","a","n"," ","S","u","l","l","i","v","a","n">>
JoshSargent == <<"J","o","s","h"," ","S","a","r","g","e","n","t">>
CSullivan == <<"C","."," ","S","u","l","l","i","v","a","n">>
QSullivan == <<"Q","."," ","S","u","l","l","i","v","a","n">>
JSargent == <<"J","."," ","S","a","r","g","e","n","t">>

\* player ids
PlayerIds == {1, 2, 3}

\* this.players as loaded: two players of one club who share a last name, and
\* one player of another club with a feed id for the per-player lookup
RosterAtStart ==
  [id \in PlayerIds |->
     CASE id = 1 -> [id |-> 1, name |-> QuinnSullivan, team |-> PhiladelphiaUnion,
                     fotmobId |-> Null]
       [] id = 2 -> [id |-> 2, name |-> CavanSullivan, team |-> PhiladelphiaUnion,
                     fotmobId |-> Null]
       [] id = 3 -> [id |-> 3, name |-> JoshSargent, team |-> NorwichCity,
                     fotmobId |-> Some(3)]]

(***************************************************************************)
(* Event Normalizer: parsePlayerEvents, calculateMinutesPlayed,            *)
(* getMatchStatus                                                          *)
(***************************************************************************)
\* playerName.split(' ').pop().toLowerCase()
playerLastName(playerName) ==
  LET parts == split(playerName) IN toLowerCase(parts[Len(parts)])

\* the names of the roster and the names the feed entries carry
RosterNames == {QuinnSullivan, CavanSullivan, JoshSargent}
FeedPlayerNames == {CSullivan, QSullivan, JSargent}

\* (x?.name?.toLowerCase() || '').includes(playerLastName)
nameIncludesLastName(entryName, playerName) ==
  entryName # Null /\ includes(toLowerCase(entryName), playerLastName(playerName))

\* nameIncludesLastName on the names of the model, evaluated once
nameIncludesTable ==
  [e \in FeedPlayerNames |-> [n \in RosterNames |-> nameIncludesLastName(e, n)]]

entryNames(entryName, playerName) ==
  IF entryName \in FeedPlayerNames /\ playerName \in RosterNames
  THEN nameIncludesTable[entryName][playerName]
  ELSE nameIncludesLastName(entryName, playerName)

\* the goals loop (243-255)
RECURSIVE goalEvents(_, _)
goalEvents(goals, playerName) ==
  IF goals = << >> THEN << >>
  ELSE LET goal == Head(goals)
       IN (IF entryNames(goal.scorer, playerName)
           THEN <<[type |-> "goal", minute |-> goal.minute]>> ELSE << >>)
          \o (IF entryNames(goal.assist, playerName)
              THEN <<[type |-> "assist", minute |-> goal.minute]>> ELSE << >>)
          \o goalEvents(Tail(goals), playerName)

\* the substitutions loop (258-270)
RECURSIVE subEvents(_, _)
subEvents(subs, playerName) ==
  IF subs = << >> THEN << >>
  ELSE LET sub == Head(subs)
       IN (IF entryNames(sub.playerOut, playerName)
           THEN <<[type |-> "sub_out", minute |-> sub.minute]>> ELSE << >>)
          \o (IF entryNames(sub.playerIn, playerName)
              THEN <<[type |-> "sub_in", minute |-> sub.minute]>> ELSE << >>)
          \o subEvents(Tail(subs), playerName)

\* the bookings loop (273-281)
RECURSIVE bookingEvents(_, _)
bookingEvents(bookings, playerName) ==
  IF bookings = << >> THEN << >>
  ELSE LET booking == Head(bookings)
       IN (IF entryNames(booking.player, playerName)
           THEN <<[type |-> IF booking.card = "YELLOW_CARD" THEN "yellow" ELSE "red",
                   minute |-> booking.minute]>>
           ELSE << >>)
          \o bookingEvents(Tail(bookings), playerName)

\* isHome is computed into teamSide and never read (239)
parsePlayerEvents(matchDetails, playerName, isHome) ==
  goalEvents(matchDetails.goals, playerName)
  \o subEvents(matchDetails.substitutions, playerName)
  \o bookingEvents(matchDetails.bookings, playerName)

\* events.find(e => e.type === type): Null or Some(event)
findEvent(events, type) ==
  LET hits == SelectSeq(events, LAMBDA e : e.type = type)
  IN IF hits = << >> THEN Null ELSE Some(hits[1])

hasEventOfType(events, type) == \E i \in 1..Len(events) : events[i].type = type

countEvents(events, type) == Len(SelectSeq(events, LAMBDA e : e.type = type))

\* calculateMinutesPlayed as it would be with the branch of 293-294 returning
\* the minute of the substitution
calculateMinutesPlayedUntilSubIn(events, matchMinute) ==
  LET subIn == findEvent(events, "sub_in")
      subOut == findEvent(events, "sub_out")
  IN IF subIn # Null /\ subOut # Null THEN Val(subOut).minute - Val(subIn).minute
     ELSE IF subIn # Null THEN Val(subIn).minute
     ELSE IF subOut # Null THEN Val(subOut).minute
     ELSE matchMinute

\* calculateMinutesPlayed as it would be with the branch of 291-292 counting
\* from the kick-off
calculateMinutesPlayedFromKickoff(events, matchMinute) ==
  LET subIn == findEvent(events, "sub_in")
      subOut == findEvent(events, "sub_out")
  IN IF subIn # Null /\ subOut # Null THEN Val(subOut).minute
     ELSE IF subIn # Null THEN matchMinute - Val(subIn).minute
     ELSE IF subOut # Null THEN Val(subOut).minute
     ELSE matchMinute

\* 287-304
calculateMinutesPlayed(events, matchMinute) ==
  LET subIn == findEvent(events, "sub_in")
      subOut == findEvent(events, "sub_out")
  IN IF subIn # Null /\ subOut # Null THEN Val(subOut).minute - Val(subIn).minute
     ELSE IF subIn # Null THEN matchMinute - Val(subIn).minute
     ELSE IF subOut # Null THEN Val(subOut).minute
     ELSE matchMinute

\* the status values Football-Data.org documents, and one it does not
FDStatuses ==
  { "SCHEDULED", "TIMED", "IN_PLAY", "PAUSED", "LIVE", "FINISHED", "SUSPENDED",
    "POSTPONED", "CANCELLED", "AWARDED" }

getMatchStatus(match) ==
  CASE match.status \in {"SCHEDULED", "TIMED"} -> "upcoming"
    [] match.status \in {"IN_PLAY", "PAUSED", "LIVE"} -> "live"
    [] match.status = "FINISHED" -> "finished"
    [] match.status = "SUSPENDED" -> "suspended"
    [] match.status = "POSTPONED" -> "postponed"
    [] match.status = "CANCELLED" -> "cancelled"
    [] OTHER -> match.status

(***************************************************************************)
(* updateMatchData (376-516)                                               *)
(***************************************************************************)
\* the teams of getPlayersByTeam are the team fields of the players; a player's
\* loop variable teamName is the player's own team

\* 392-398: Null, or Some(TRUE) for home and Some(FALSE) for away
isHomeOf(homeTeam, awayTeam, teamName) ==
  IF teamMatchesOf(homeTeam, teamName) THEN Some(TRUE)
  ELSE IF teamMatchesOf(awayTeam, teamName) THEN Some(FALSE)
  ELSE Null

\* teamLineup.some(p => (p.name || '').toLowerCase().includes(playerLastName))
listNames(list, playerName) ==
  list # Null /\ Len(list) > 0
  /\ \E i \in 1..Len(list) : entryNames(list[i], playerName)

\* 418-484: participated, minutesPlayed, started and the events of one player
todayParticipation(match, status, matchDetails, player, isHome) ==
  IF matchDetails = Null
  THEN [participated |-> Null, minutesPlayed |-> Null, started |-> Null,
        events |-> << >>]
  ELSE LET det == Val(matchDetails)
           teamLineup == IF isHome THEN det.homeLineup ELSE det.awayLineup
           teamBench == IF isHome THEN det.homeBench ELSE det.awayBench
           inLineup == listNames(teamLineup, player.name)
           participated1 == IF inLineup THEN Some(TRUE) ELSE Null
           started1 == IF inLineup THEN Some(TRUE) ELSE Null
           onBench == participated1 = Null /\ listNames(teamBench, player.name)
           started2 == IF onBench THEN Some(FALSE) ELSE started1
           playerEvents == parsePlayerEvents(det, player.name, isHome)
           currentMinute ==
             IF status = "live"
             THEN (IF match.minute = Null \/ match.minute = Some(0)
                   THEN 45 ELSE Val(match.minute))
             ELSE 90
       IN IF Len(playerEvents) > 0
          THEN [participated |-> Some(TRUE),
                minutesPlayed |-> Some(calculateMinutesPlayed(playerEvents, currentMinute)),
                started |-> IF hasEventOfType(playerEvents, "sub_in") THEN Some(FALSE)
                            ELSE IF started2 = Null THEN Some(TRUE)
                            ELSE started2,
                events |-> playerEvents]
          ELSE [participated |-> participated1,
                minutesPlayed |-> IF participated1 = Some(TRUE) /\ status = "finished"
                                  THEN Some(90) ELSE Null,
                started |-> started2,
                events |-> playerEvents]

\* 486-504: the record stored for one player (score, kickoff, venue and
\* competition are copied from the fixture unchanged and are left out; the
\* keys onBench, rating and source, which this record does not have and which
\* read as undefined, are Null)
todayRecord(match, matchDetails, player, isHome) ==
  LET status == getMatchStatus(match)
      part == todayParticipation(match, status, matchDetails, player, isHome)
  IN [fixtureId |-> match.id,
      status |-> status,
      homeTeam |-> match.homeTeam,
      awayTeam |-> match.awayTeam,
      minute |-> IF match.minute = Null THEN 0 ELSE Val(match.minute),
      isHome |-> isHome,
      events |-> part.events,
      participated |-> part.participated,
      minutesPlayed |-> part.minutesPlayed,
      started |-> part.started,
      goals |-> countEvents(part.events, "goal"),
      assists |-> countEvents(part.events, "assist"),
      onBench |-> Null,
      rating |-> Null,
      source |-> Null]

\* 401-415: the detail is requested for a live or finished fixture only; a
\* failed request leaves matchDetails null.  details is Null (the request
\* fails) or Some(detail of the fixture)
detailsFor(match, details) ==
  IF getMatchStatus(match) \in {"live", "finished"} THEN details ELSE Null

\* updateMatchDataForMatch as it would be if the events of a pass were pushed
\* onto the events of the stored record
updateMatchDataAppendingEvents(md, roster, match, details) ==
  [id \in PlayerIds |->
     LET isHome == isHomeOf(match.homeTeam, match.awayTeam, roster[id].team)
     IN IF isHome = Null THEN md[id]
        ELSE LET rec == todayRecord(match, detailsFor(match, details), roster[id],
                                    Val(isHome))
             IN Some([rec EXCEPT
                        !.events = (IF md[id] = Null THEN << >>
                                    ELSE Val(md[id]).events) \o @])]

\* updateMatchDataForMatch as it would be if the status were advanced from the
\* stored one: a record stored as finished stays finished
updateMatchDataKeepingFinished(md, roster, match, details) ==
  [id \in PlayerIds |->
     LET isHome == isHomeOf(match.homeTeam, match.awayTeam, roster[id].team)
     IN IF isHome = Null THEN md[id]
        ELSE LET rec == todayRecord(match, detailsFor(match, details), roster[id],
                                    Val(isHome))
             IN IF md[id] # Null /\ Val(md[id]).status = "finished"
                THEN Some([rec EXCEPT !.status = "finished"])
                ELSE Some(rec)]

\* one iteration of the loop over the fixtures (385-508)
updateMatchDataForMatch(md, roster, match, details) ==
  [id \in PlayerIds |->
     LET isHome == isHomeOf(match.homeTeam, match.awayTeam, roster[id].team)
     IN IF isHome = Null THEN md[id]
        ELSE Some(todayRecord(match, detailsFor(match, details), roster[id],
                              Val(isHome)))]

\* 243-244 under 462: for (const goal of matchDetails.goals) throws a
\* TypeError when goals is truthy and not iterable; this happens for the
\* first player of the first roster team of the fixture, before any record
\* of the fixture is stored
parsePlayerEventsThrows(roster, match, details) ==
  /\ detailsFor(match, details) # Null
  /\ ~Val(details).goalsIterable
  /\ \E id \in PlayerIds :
       isHomeOf(match.homeTeam, match.awayTeam, roster[id].team) # Null

\* the loop over the fixtures (385-508); an exception leaves the loop for
\* the catch of 512-515, and what was stored before it stays
RECURSIVE updateMatchDataOver(_, _, _, _)
updateMatchDataOver(md, roster, matches, details) ==
  IF matches = << >> THEN md
  ELSE IF parsePlayerEventsThrows(roster, Head(matches), details) THEN md
  ELSE updateMatchDataOver(
         updateMatchDataForMatch(md, roster, Head(matches), details),
         roster, Tail(matches), details)

\* updateMatchData as it would be if the pass began with this.matchData.clear()
updateMatchDataStartingEmpty(md, roster, matches, details) ==
  updateMatchDataOver([id \in PlayerIds |-> Null], roster, matches, details)

\* this.matchData after updateMatchData; matches is what fetchMatches returned
\* (the empty list when the request failed, 369-372)
updateMatchData(md, roster, matches, details) ==
  updateMatchDataOver(md, roster, matches, details)

\* hasLiveMatches (1475-1482)
hasLiveMatches(md) ==
  \E id \in PlayerIds : md[id] # Null /\ Val(md[id]).status = "live"

(***************************************************************************)
(* updateMatchDataFromFotMob (519-768)                                     *)
(*                                                                         *)
(* fotmobService.js is not among the sources: its answers are upstream     *)
(* values.  getTeamData answers Null (it throws, or has no overview) or    *)
(*   [name, id, lastLineupStats, nextMatch, lastMatch]                     *)
(* (details.name, details.id, whether overview.lastLineupStats is there,   *)
(* overview.nextMatch and overview.lastMatch) with a match Null or Some of *)
(*   [id, today, date, finished, started, homeName, homeId, awayName,      *)
(*    awayId, liveTime]                                                    *)
(* where date is status.utcTime, today says that it falls on               *)
(* getTodayDate(), started is status.started || status.ongoing and         *)
(* liveTime is the number the live-time strings hold (Null: none does).    *)
(* getPlayerStatsFromMatch and getPlayerStatsFromTeamLineup answer Null or *)
(* Some of [participated, minutesPlayed, started, onBench, rating, events, *)
(* liveMinute].  The lineup status of the 45 minutes before kickoff        *)
(* (709-719) is left out.                                                  *)
(***************************************************************************)
\* TEAM_IDS of fotmobService.js: a club with an entry and clubs without
TEAM_IDS(teamName) ==
  IF teamName = PhiladelphiaUnion THEN Some(8586) ELSE Null

\* getTeamIdFromFotMob (771-776), after TEAM_IDS[teamName] || ...
teamIdOf(teamName, teamData) ==
  IF TEAM_IDS(teamName) # Null THEN TEAM_IDS(teamName)
  ELSE IF teamData.id # Null THEN teamData.id
  ELSE TEAM_IDS(teamName)

\* hasFootballDataMatch as it would be if only a live record of the primary
\* feed kept FotMob from being asked
hasFootballDataMatchLiveOnly(md, roster, teamName) ==
  \E id \in PlayerIds :
    /\ roster[id].team = teamName
    /\ md[id] # Null
    /\ Val(md[id]).status = "live"
    /\ Val(md[id]).source # Some("fotmob")

\* 533-536
hasFootballDataMatch(md, roster, teamName) ==
  \E id \in PlayerIds :
    /\ roster[id].team = teamName
    /\ md[id] # Null
    /\ Val(md[id]).status # "no_match_today"
    /\ Val(md[id]).source # Some("fotmob")

\* 555-575: the match of today, Null when there is none
matchToUse(teamData) ==
  IF teamData.nextMatch # Null /\ Val(teamData.nextMatch).today
  THEN teamData.nextMatch
  ELSE IF teamData.lastMatch # Null /\ Val(teamData.lastMatch).today
          /\ Val(teamData.lastMatch).finished
  THEN teamData.lastMatch
  ELSE Null

\* 578-584
fotmobStatus(m) ==
  IF m.finished THEN "finished"
  ELSE IF m.started THEN "live"
  ELSE "upcoming"

\* 579-608: the minute before the per-player statistics are read
fotmobMinute(m) ==
  IF m.finished THEN 90
  ELSE IF m.started /\ m.liveTime # Null THEN Val(m.liveTime)
  ELSE 0

\* 626-632
teamInMatch(m, teamName, teamId) ==
  \/ (teamId # Null /\ (m.homeId = Val(teamId) \/ m.awayId = Val(teamId)))
  \/ teamMatchesOf(m.homeName, teamName)
  \/ teamMatchesOf(m.awayName, teamName)

\* 635-639
fotmobIsHome(m, teamName, teamId) ==
  IF teamId # Null /\ m.homeId = Val(teamId) THEN TRUE
  ELSE IF teamId # Null /\ m.awayId = Val(teamId) THEN FALSE
  ELSE teamMatchesOf(m.homeName, teamName)

\* 649-706: the statistics of one player of a live or finished match
fotmobPlayerStats(status, stats, teamLineupStats) ==
  LET none == [participated |-> Null, minutesPlayed |-> Null, started |-> Null,
               onBench |-> Null, rating |-> Null, events |-> << >>]
      fromMatch ==
        IF status \in {"live", "finished"} /\ stats # Null
        THEN [participated |-> Val(stats).participated,
              minutesPlayed |-> Val(stats).minutesPlayed,
              started |-> Val(stats).started,
              onBench |-> Some(Val(stats).onBench),
              rating |-> Val(stats).rating,
              events |-> Val(stats).events]
        ELSE none
  IN IF status \in {"live", "finished"} /\ fromMatch.participated = Null
        /\ teamLineupStats # Null
     THEN [fromMatch EXCEPT
             !.participated = Val(teamLineupStats).participated,
             !.started = Val(teamLineupStats).started,
             !.onBench = Some(Val(teamLineupStats).onBench),
             !.rating = Val(teamLineupStats).rating,
             !.events = Val(teamLineupStats).events]
     ELSE fromMatch

\* 675-678: the minute after the statistics of one player were read
minuteAfterStats(status, minute, stats) ==
  IF status \in {"live", "finished"} /\ stats # Null /\ minute = 0
     /\ Val(stats).liveMinute > 0
  THEN Val(stats).liveMinute
  ELSE minute

\* 721-744
fotmobRecord(m, status, minute, isHome, ps) ==
  [fixtureId |-> m.id,
   status |-> status,
   homeTeam |-> m.homeName,
   awayTeam |-> m.awayName,
   minute |-> minute,
   isHome |-> isHome,
   events |-> ps.events,
   participated |-> ps.participated,
   minutesPlayed |-> ps.minutesPlayed,
   started |-> ps.started,
   goals |-> countEvents(ps.events, "goal"),
   assists |-> countEvents(ps.events, "assist"),
   onBench |-> IF ps.onBench = Null THEN Some(FALSE) ELSE ps.onBench,
   rating |-> ps.rating,
   source |-> Some("fotmob")]

\* 648-746: the loop over the players of the team, in roster order; minute is
\* the loop's running value
RECURSIVE fotmobPlayersFrom(_, _, _, _, _, _, _, _, _)
fotmobPlayersFrom(md, roster, id, teamName, m, minute, isHome, stats, lineupStats) ==
  IF id \notin PlayerIds THEN md
  ELSE IF roster[id].team # teamName
  THEN fotmobPlayersFrom(md, roster, id + 1, teamName, m, minute, isHome,
                         stats, lineupStats)
  ELSE LET status == fotmobStatus(m)
           ps == fotmobPlayerStats(status, stats[id], lineupStats[id])
           minute2 == minuteAfterStats(status, minute, stats[id])
       IN fotmobPlayersFrom(
            [md EXCEPT ![id] = Some(fotmobRecord(m, status, minute2, isHome, ps))],
            roster, id + 1, teamName, m, minute2, isHome, stats, lineupStats)

\* 526-758: one iteration of the loop over the teams
fotmobTodayForTeam(md, roster, teamName, teamDataOf, stats, lineupStats) ==
  IF hasFootballDataMatch(md, roster, teamName) THEN md
  ELSE IF teamDataOf[teamName] = Null THEN md
  ELSE LET teamData == Val(teamDataOf[teamName])
           use == matchToUse(teamData)
           teamId == teamIdOf(teamName, teamData)
       IN IF teamData.name # Null /\ ~teamMatchesOf(Val(teamData.name), teamName) THEN md
          ELSE IF use = Null THEN md
          ELSE IF ~teamInMatch(Val(use), teamName, teamId) THEN md
          ELSE fotmobPlayersFrom(md, roster, 1, teamName, Val(use),
                                 fotmobMinute(Val(use)),
                                 fotmobIsHome(Val(use), teamName, teamId),
                                 stats, lineupStats)

\* Object.entries(getPlayersByTeam()): the teams in the order of their first
\* player
RECURSIVE teamsFrom(_, _)
teamsFrom(roster, id) ==
  IF id \notin PlayerIds THEN << >>
  ELSE LET rest == teamsFrom(roster, id + 1)
       IN <<roster[id].team>>
          \o SelectSeq(rest, LAMBDA t : t # roster[id].team)

getPlayersByTeam(roster) == teamsFrom(roster, 1)

RECURSIVE updateMatchDataFromFotMobOver(_, _, _, _, _, _)
updateMatchDataFromFotMobOver(md, roster, teams, teamDataOf, stats, lineupStats) ==
  IF teams = << >> THEN md
  ELSE updateMatchDataFromFotMobOver(
         fotmobTodayForTeam(md, roster, Head(teams), teamDataOf, stats, lineupStats),
         roster, Tail(teams), teamDataOf, stats, lineupStats)

\* this.matchData after updateMatchDataFromFotMob
updateMatchDataFromFotMob(md, roster, teamDataOf, stats, lineupStats) ==
  updateMatchDataFromFotMobOver(md, roster, getPlayersByTeam(roster),
                                teamDataOf, stats, lineupStats)

(***************************************************************************)
(* Upstream Football-Data.org: the fixture of today and its detail         *)
(***************************************************************************)
\* the most entries (goals, substitutions, bookings together) a detail holds
MaxEntries == 2

\* the statuses the fixture takes: upcoming, live (two spellings), finished,
\* postponed, and one getMatchStatus has no case for
TodayStatuses == {"TIMED", "IN_PLAY", "PAUSED", "FINISHED", "POSTPONED", "AWARDED"}

\* match.minute: absent, or the minute of a fixture in play
TodayMinutes == {Null, Some(70)}

\* the fixture Philadelphia Union v Toronto FC
fixturePhiTor(status, minute) ==
  [id |-> 101, status |-> status, homeTeam |-> PhiladelphiaUnion,
   awayTeam |-> TorontoFC, minute |-> minute]

GoalCatalogue ==
  { [scorer |-> CSullivan, assist |-> Null, minute |-> 10],
    [scorer |-> JSargent, assist |-> QSullivan, minute |-> 55] }

SubCatalogue ==
  { [playerOut |-> QSullivan, playerIn |-> CSullivan, minute |-> 60],
    [playerOut |-> CSullivan, playerIn |-> JSargent, minute |-> 85],
    [playerOut |-> JSargent, playerIn |-> CSullivan, minute |-> 65] }

BookingCatalogue ==
  { [player |-> CSullivan, card |-> "YELLOW_CARD", minute |-> 30],
    [player |-> JSargent, card |-> "RED_CARD", minute |-> 80] }

\* homeTeam.lineup / bench and awayTeam.lineup / bench: absent (the free
\* tier), or naming the players; in the last one no Sullivan is in the
\* lineup of Philadelphia Union and one is on its bench
LineupCatalogue ==
  { [homeLineup |-> Null, homeBench |-> Null, awayLineup |-> Null, awayBench |-> Null],
    [homeLineup |-> <<JSargent>>, homeBench |-> <<CSullivan>>,
     awayLineup |-> << >>, awayBench |-> << >>],
    [homeLineup |-> <<CSullivan>>, homeBench |-> <<QSullivan>>,
     awayLineup |-> <<JSargent>>, awayBench |-> << >>],
    [homeLineup |-> <<QSullivan>>, homeBench |-> <<CSullivan>>,
     awayLineup |-> << >>, awayBench |-> <<JSargent>>] }

\* goalsIterable: goals is an array (or absent), not another truthy value
EmptyDetails ==
  [goals |-> << >>, substitutions |-> << >>, bookings |-> << >>,
   goalsIterable |-> TRUE,
   homeLineup |-> Null, homeBench |-> Null, awayLineup |-> Null, awayBench |-> Null]

entryCount(det) == Len(det.goals) + Len(det.substitutions) + Len(det.bookings)

\* upstream records a goal, a substitution or a booking
FdAddEntry ==
  /\ entryCount(fdDetails) < MaxEntries
  /\ \/ \E g \in GoalCatalogue :
          fdDetails' = [fdDetails EXCEPT !.goals = Append(@, g)]
     \/ \E sub \in SubCatalogue :
          fdDetails' = [fdDetails EXCEPT !.substitutions = Append(@, sub)]
     \/ \E b \in BookingCatalogue :
          fdDetails' = [fdDetails EXCEPT !.bookings = Append(@, b)]
  /\ UNCHANGED <<fdToday, players, matchData>>
  /\ UNCHANGED notToday

\* upstream changes the status of the fixture, or publishes it
FdSetStatus ==
  /\ \E st \in TodayStatuses, m \in TodayMinutes :
       /\ (m # Null => st \in {"IN_PLAY", "PAUSED"})
       /\ fdToday' = <<fixturePhiTor(st, m)>>
  /\ UNCHANGED <<fdDetails, players, matchData>>
  /\ UNCHANGED notToday

(***************************************************************************)
(* SpecToday: updateMatchData over the changing feed                       *)
(***************************************************************************)
InitToday ==
  /\ TeamIdle /\ MinIdle /\ FmIdle /\ SchedIdle /\ LastIdle /\ CacheIdle
  /\ PipeIdle /\ CycleIdle
  /\ players = RosterAtStart
  /\ matchData = [id \in PlayerIds |-> Null]
  /\ fdToday \in {<< >>} \cup { <<fixturePhiTor(st, Null)>> : st \in TodayStatuses }
  /\ \E l \in LineupCatalogue :
       fdDetails = [EmptyDetails EXCEPT
                      !.homeLineup = l.homeLineup, !.homeBench = l.homeBench,
                      !.awayLineup = l.awayLineup, !.awayBench = l.awayBench]

\* one pass of updateMatchData: the fixture request answers or fails
\* (fetchMatches then returns []), the detail request answers or fails
UpdateMatchData ==
  /\ \E listOk \in BOOLEAN, detailOk \in BOOLEAN :
       matchData' = updateMatchData(matchData, players,
                                    IF listOk THEN fdToday ELSE << >>,
                                    IF detailOk THEN Some(fdDetails) ELSE Null)
  /\ UNCHANGED <<players, fdToday, fdDetails>>
  /\ UNCHANGED notToday

NextToday == FdAddEntry \/ FdSetStatus \/ UpdateMatchData

\* the names of the detail's entries that produce an event of this type and
\* minute
namesBehindEvent(det, type, minute) ==
  CASE type = "goal" ->
         { det.goals[i].scorer : i \in { j \in 1..Len(det.goals) : det.goals[j].minute = minute } }
    [] type = "assist" ->
         { det.goals[i].assist : i \in { j \in 1..Len(det.goals) : det.goals[j].minute = minute } }
    [] type = "sub_out" ->
         { det.substitutions[i].playerOut :
             i \in { j \in 1..Len(det.substitutions) : det.substitutions[j].minute = minute } }
    [] type = "sub_in" ->
         { det.substitutions[i].playerIn :
             i \in { j \in 1..Len(det.substitutions) : det.substitutions[j].minute = minute } }
    [] OTHER ->
         { det.bookings[i].player :
             i \in { j \in 1..Len(det.bookings) : det.bookings[j].minute = minute } }

\* the first letter of the feed's name is the first letter of the roster name
firstInitialAgrees(entryName, playerName) ==
  entryName # Null /\ LowerChar(entryName[1]) = LowerChar(playerName[1])

\* C9: when two roster players share a last name, a feed entry (goal, assist,
\* substitution, card) is attributed only to the player whose first initial
\* matches: every event stored for a player comes from an entry whose name
\* has the player's last name and first initial.
C9_EventsOnlyForMatchingInitial ==
  \A id \in PlayerIds :
    matchData[id] # Null =>
      \A i \in 1..Len(Val(matchData[id]).events) :
        LET e == Val(matchData[id]).events[i]
        IN \E n \in namesBehindEvent(fdDetails, e.type, e.minute) :
             /\ nameIncludesLastName(n, players[id].name)
             /\ firstInitialAgrees(n, players[id].name)

\* the canonical statuses of a stored record
CanonicalStatuses ==
  {"upcoming", "live", "finished", "suspended", "postponed", "cancelled"}

\* C15: whatever native status the feed reports, the status stored in a
\* TodayMatch record is one of upcoming, live, finished, suspended,
\* postponed, cancelled; no raw feed status is stored.
C15_StoredStatusIsCanonical ==
  \A id \in PlayerIds :
    matchData[id] # Null => Val(matchData[id]).status \in CanonicalStatuses

\* the detail has the player on the bench of the team, and not in its lineup
onBenchIn(det, player) ==
  LET isHome == teamMatchesOf(PhiladelphiaUnion, player.team)
  IN /\ ~listNames(IF isHome THEN det.homeLineup ELSE det.awayLineup, player.name)
     /\ listNames(IF isHome THEN det.homeBench ELSE det.awayBench, player.name)

\* C26: for a player the detail has on the bench, with no event of his, the
\* TodayMatch record written has participated = false and minutesPlayed = 0,
\* as the LastGame record has, and differs in that from the record written
\* without lineup data, whose participated is unknown.  (Stated on the
\* records of a finished fixture.)
C26_UnusedSubDidNotPlay ==
  \A id \in PlayerIds :
    (/\ matchData[id] # Null
     /\ Val(matchData[id]).status = "finished"
     /\ Val(matchData[id]).started = Some(FALSE)
     /\ Val(matchData[id]).events = << >>
     /\ onBenchIn(fdDetails, players[id]))
      => /\ Val(matchData[id]).participated = Some(FALSE)
         /\ Val(matchData[id]).minutesPlayed = Some(0)

\* C27: a TodayMatch record of a finished fixture whose detail has exactly
\* one event of the player, sub_in at minute 65, has status finished,
\* started = false, minutesPlayed = 25 and participated = true.
C27_SubInAt65Gives25 ==
  \A id \in PlayerIds :
    (/\ matchData[id] # Null
     /\ Val(matchData[id]).status = "finished"
     /\ Val(matchData[id]).events = <<[type |-> "sub_in", minute |-> 65]>>)
      => /\ Val(matchData[id]).started = Some(FALSE)
         /\ Val(matchData[id]).minutesPlayed = Some(25)
         /\ Val(matchData[id]).participated = Some(TRUE)

\* updateMatchData has stored such a record from the detail upstream has
C27_SubInAt65Stored ==
  \E id \in PlayerIds :
    /\ fdToday = <<fixturePhiTor("FINISHED", Null)>>
    /\ parsePlayerEvents(fdDetails, players[id].name, TRUE)
         = <<[type |-> "sub_in", minute |-> 65]>>
    /\ matchData[id] # Null
    /\ Val(matchData[id]).status = "finished"
    /\ Val(matchData[id]).events = <<[type |-> "sub_in", minute |-> 65]>>

\* the duration of the fixture of a record: the current minute of a live
\* fixture (45 when the feed has none, 472), 90 otherwise
durationOf(record) ==
  IF record.status = "live"
  THEN (IF record.minute = 0 THEN 45 ELSE record.minute)
  ELSE 90

\* C36: in every TodayMatch record a known minutesPlayed is an integer
\* between 0 and the duration of the fixture; it is never negative, for
\* every combination of sub_in and sub_out events attributed to the player
\* and every live minute, a missing one included.
C36_MinutesPlayedInRange ==
  \A id \in PlayerIds :
    (matchData[id] # Null /\ Val(matchData[id]).minutesPlayed # Null)
      => /\ Val(Val(matchData[id]).minutesPlayed) >= 0
         /\ Val(Val(matchData[id]).minutesPlayed) <= durationOf(Val(matchData[id]))

(***************************************************************************)
(* LastGame: updateFotMobData (1064-1200), findFotMobMatchForDate,         *)
(* findManualMatchForDate, getPlayerRecentMatchFromFotMob (1220-1345) and  *)
(* updateLastGameData (779-1061)                                           *)
(*                                                                         *)
(* Times are whole hours; the calendar day of a time (toISOString up to    *)
(* the T) is the time divided by 24.  A history entry of                   *)
(* getPlayerRecentMatches is                                               *)
(*   [matchId, date, homeTeam, awayTeam, participated, minutesPlayed,      *)
(*    started, rating, goals, assists, events, onBench]                    *)
(* and the statistics of getPlayerLastMatchStats have the same fields.     *)
(* Scores and the competition name are copied through unchanged and are    *)
(* left out of the records.                                                *)
(***************************************************************************)
dayOf(time) == time \div 24

\* x || 0 for a number that may be null or undefined
orZero(x) == IF x = Null THEN Some(0) ELSE x

\* 1077: new Date(cached.timestamp) > oneHourAgo
cacheIsFresh(entry, clock) == entry.timestamp > clock - 1

\* 1089-1104: the statistics taken from the head of the player's history
statsFromHistory(h) ==
  [matchId |-> h.matchId, date |-> h.date,
   homeTeam |-> h.homeTeam, awayTeam |-> h.awayTeam,
   minutesPlayed |-> h.minutesPlayed, started |-> h.started,
   participated |-> h.participated,
   goals |-> h.goals, assists |-> h.assists, rating |-> h.rating,
   events |-> h.events]

\* 1123-1138: the statistics put together from the team's lineup snapshot
statsFromTeamLineup(lastMatch, ls) ==
  [matchId |-> Some(lastMatch.id), date |-> lastMatch.date,
   homeTeam |-> lastMatch.homeName, awayTeam |-> lastMatch.awayName,
   minutesPlayed |-> Null, started |-> ls.started,
   participated |-> ls.participated,
   goals |-> ls.goals, assists |-> ls.assists, rating |-> ls.rating,
   events |-> ls.events]

\* 1082-1142: the statistics of one player, Null when no lookup has any.
\* recent is the answer of getPlayerRecentMatches, lastStats that of
\* getPlayerLastMatchStats, lineupStats that of getPlayerStatsFromTeamLineup
\* and teamData that of getTeamData (each Null when it has nothing)
fotmobStatsOf(player, recent, lastStats, lineupStats, teamData) ==
  LET fromPlayerApi ==
        IF player.fotmobId # Null /\ recent # Null /\ Len(Val(recent)) > 0
        THEN Some(statsFromHistory(Val(recent)[1])) ELSE Null
      fromLastMatch ==
        IF fromPlayerApi # Null THEN fromPlayerApi ELSE lastStats
  IN IF fromLastMatch # Null THEN fromLastMatch
     ELSE IF lineupStats # Null /\ teamData # Null
             /\ Val(teamData).lastMatch # Null
     THEN Some(statsFromTeamLineup(Val(Val(teamData).lastMatch), Val(lineupStats)))
     ELSE Null

\* 1144-1178: the cache entry written for statistics; the entry of a player
\* who did not participate has the keys date and participated only
fotmobEntry(stats, teamName, clock) ==
  IF stats.participated = Some(TRUE)
  THEN [timestamp |-> clock,
        lastMatch |->
          [matchId |-> stats.matchId, date |-> stats.date,
           isHome |-> Some(teamMatchesOf(stats.homeTeam, teamName)),
           homeTeam |-> Some(stats.homeTeam), awayTeam |-> Some(stats.awayTeam),
           minutesPlayed |-> stats.minutesPlayed, started |-> stats.started,
           participated |-> stats.participated,
           goals |-> Some(stats.goals), assists |-> Some(stats.assists),
           rating |-> stats.rating, events |-> Some(stats.events)]]
  ELSE [timestamp |-> clock,
        lastMatch |->
          [matchId |-> Null, date |-> stats.date, isHome |-> Null,
           homeTeam |-> Null, awayTeam |-> Null,
           minutesPlayed |-> Null, started |-> Null,
           participated |-> Some(FALSE),
           goals |-> Null, assists |-> Null, rating |-> Null, events |-> Null]]

\* this.fotmobData after updateFotMobData.  A lookup that throws leaves the
\* player's entry as it is, like a lookup that has nothing
updateFotMobData(fd, roster, clock, recent, lastStats, lineupStats, teamDataOf) ==
  [id \in PlayerIds |->
     IF fd[id] # Null /\ cacheIsFresh(Val(fd[id]), clock) THEN fd[id]
     ELSE LET stats == fotmobStatsOf(roster[id], recent[id], lastStats[id],
                                     lineupStats[id], teamDataOf[roster[id].team])
          IN IF stats = Null THEN fd[id]
             ELSE Some(fotmobEntry(Val(stats), roster[id].team, clock))]

\* 1144, 1190-1193: the cache file is rewritten when a participating
\* player's entry was written
fotmobUpdatedCount(fd, roster, clock, recent, lastStats, lineupStats, teamDataOf) ==
  Cardinality({ id \in PlayerIds :
    /\ ~(fd[id] # Null /\ cacheIsFresh(Val(fd[id]), clock))
    /\ LET stats == fotmobStatsOf(roster[id], recent[id], lastStats[id],
                                  lineupStats[id], teamDataOf[roster[id].team])
       IN stats # Null /\ Val(stats).participated = Some(TRUE) })

\* 74-92: the entries of the cache file that are less than one hour old
loadFotMobCache(file, clock) ==
  [id \in PlayerIds |->
     IF file[id] # Null /\ cacheIsFresh(Val(file[id]), clock) THEN file[id]
     ELSE Null]

\* 1203-1216
findFotMobMatchForDate(fd, playerId, matchDate) ==
  IF fd[playerId] = Null THEN Null
  ELSE IF dayOf(Val(fd[playerId]).lastMatch.date) = dayOf(matchDate)
  THEN Some(Val(fd[playerId]).lastMatch)
  ELSE Null

\* 122-145: a manual entry is [date, minutesPlayed, started, events], date a
\* calendar day
findManualMatchForDate(manual, playerId, matchDate) ==
  IF manual[playerId] = Null THEN Null
  ELSE LET hits == SelectSeq(Val(manual[playerId]),
                             LAMBDA m : m.date = dayOf(matchDate))
       IN IF hits = << >> THEN Null
          ELSE Some([minutesPlayed |-> hits[1].minutesPlayed,
                     started |-> hits[1].started,
                     participated |->
                       Some(hits[1].minutesPlayed # Null
                            /\ Val(hits[1].minutesPlayed) > 0),
                     events |-> hits[1].events])

\* 1243-1253 and 1302-1311, 1326-1335: a missed game
missedGameOf(fixtureId, date, homeTeam, awayTeam, isHome, onBench) ==
  [fixtureId |-> fixtureId, date |-> date, homeTeam |-> homeTeam,
   awayTeam |-> awayTeam, isHome |-> isHome, onBench |-> onBench]

\* recentMatches.find(m => m.participated): Null or Some(entry)
findParticipated(recentMatches) ==
  LET hits == SelectSeq(recentMatches, LAMBDA m : m.participated = Some(TRUE))
  IN IF hits = << >> THEN Null ELSE Some(hits[1])

\* 1293-1317, 1323-1337: the missed game taken from getTeamLastMatch, whose
\* answer is Null or Some([id, date, homeTeam, awayTeam, isHome])
missedGameFromTeam(teamLastMatch) ==
  LET t == Val(teamLastMatch)
  IN Some(missedGameOf(Some(t.id), t.date, t.homeTeam, t.awayTeam, Some(t.isHome), Null))

\* getPlayerRecentMatchFromFotMob as it would be without the comparison of
\* 1300: the team's last match is taken as missed whatever its date
getPlayerRecentMatchAnyTeamMatch(player, recent, teamLastMatch) ==
  IF player.fotmobId = Null THEN Null
  ELSE IF recent # Null /\ Len(Val(recent)) > 0
  THEN LET recentMatches == Val(recent)
           participatedMatch == findParticipated(recentMatches)
           mostRecentMatch == recentMatches[1]
           getIsHome(m) == teamMatchesOf(m.homeTeam, player.team)
           fromHistory ==
             IF mostRecentMatch.participated # Some(TRUE) /\ participatedMatch # Null
             THEN Some(missedGameOf(mostRecentMatch.matchId, mostRecentMatch.date,
                                    mostRecentMatch.homeTeam, mostRecentMatch.awayTeam,
                                    Some(getIsHome(mostRecentMatch)),
                                    Some(mostRecentMatch.onBench)))
             ELSE Null
           missedGame ==
             IF fromHistory = Null /\ participatedMatch # Null
                /\ teamLastMatch # Null
             THEN missedGameFromTeam(teamLastMatch)
             ELSE fromHistory
       IN IF participatedMatch # Null
          THEN LET m == Val(participatedMatch)
               IN Some([fixtureId |-> m.matchId, date |-> Some(m.date),
                        homeTeam |-> m.homeTeam, awayTeam |-> m.awayTeam,
                        isHome |-> getIsHome(m),
                        minutesPlayed |-> m.minutesPlayed, started |-> m.started,
                        participated |-> m.participated,
                        goals |-> m.goals, assists |-> m.assists,
                        rating |-> m.rating, events |-> m.events,
                        missedGame |-> missedGame])
          ELSE Some([fixtureId |-> Null, date |-> Some(mostRecentMatch.date),
                     homeTeam |-> mostRecentMatch.homeTeam,
                     awayTeam |-> mostRecentMatch.awayTeam,
                     isHome |-> getIsHome(mostRecentMatch),
                     minutesPlayed |-> Some(0), started |-> Some(FALSE),
                     participated |-> Some(FALSE),
                     goals |-> 0, assists |-> 0,
                     rating |-> Null, events |-> << >>,
                     missedGame |-> missedGame])
  ELSE IF teamLastMatch # Null
  THEN Some([fixtureId |-> Null, date |-> Null,
             homeTeam |-> Null, awayTeam |-> Null, isHome |-> Null,
             minutesPlayed |-> Null, started |-> Null, participated |-> Null,
             goals |-> 0, assists |-> 0, rating |-> Null, events |-> << >>,
             missedGame |-> missedGameFromTeam(teamLastMatch)])
  ELSE Null

\* 1220-1345: Null or Some(result); result.date is Null when the result has a
\* missed game only.  recent is Null when getPlayerRecentMatches throws or has
\* nothing, teamLastMatch is Null when getTeamLastMatch throws or has nothing
getPlayerRecentMatchFromFotMob(player, recent, teamLastMatch) ==
  IF player.fotmobId = Null THEN Null
  ELSE IF recent # Null /\ Len(Val(recent)) > 0
  THEN LET recentMatches == Val(recent)
           participatedMatch == findParticipated(recentMatches)
           mostRecentMatch == recentMatches[1]
           getIsHome(m) == teamMatchesOf(m.homeTeam, player.team)
           fromHistory ==
             IF mostRecentMatch.participated # Some(TRUE) /\ participatedMatch # Null
             THEN Some(missedGameOf(mostRecentMatch.matchId, mostRecentMatch.date,
                                    mostRecentMatch.homeTeam, mostRecentMatch.awayTeam,
                                    Some(getIsHome(mostRecentMatch)),
                                    Some(mostRecentMatch.onBench)))
             ELSE Null
           missedGame ==
             IF fromHistory = Null /\ participatedMatch # Null
                /\ teamLastMatch # Null
                /\ Val(teamLastMatch).date > Val(participatedMatch).date
             THEN missedGameFromTeam(teamLastMatch)
             ELSE fromHistory
       IN IF participatedMatch # Null
          THEN LET m == Val(participatedMatch)
               IN Some([fixtureId |-> m.matchId, date |-> Some(m.date),
                        homeTeam |-> m.homeTeam, awayTeam |-> m.awayTeam,
                        isHome |-> getIsHome(m),
                        minutesPlayed |-> m.minutesPlayed, started |-> m.started,
                        participated |-> m.participated,
                        goals |-> m.goals, assists |-> m.assists,
                        rating |-> m.rating, events |-> m.events,
                        missedGame |-> missedGame])
          ELSE Some([fixtureId |-> Null, date |-> Some(mostRecentMatch.date),
                     homeTeam |-> mostRecentMatch.homeTeam,
                     awayTeam |-> mostRecentMatch.awayTeam,
                     isHome |-> getIsHome(mostRecentMatch),
                     minutesPlayed |-> Some(0), started |-> Some(FALSE),
                     participated |-> Some(FALSE),
                     goals |-> 0, assists |-> 0,
                     rating |-> Null, events |-> << >>,
                     missedGame |-> missedGame])
  ELSE IF teamLastMatch # Null
  THEN Some([fixtureId |-> Null, date |-> Null,
             homeTeam |-> Null, awayTeam |-> Null, isHome |-> Null,
             minutesPlayed |-> Null, started |-> Null, participated |-> Null,
             goals |-> 0, assists |-> 0, rating |-> Null, events |-> << >>,
             missedGame |-> missedGameFromTeam(teamLastMatch)])
  ELSE Null

\* 788-789
needsFotMobData(existingLastGame) ==
  \/ existingLastGame = Null
  \/ /\ Val(existingLastGame).rating = Null
     /\ Val(existingLastGame).source # "fotmob_player_api"

\* 797-816: what the first tier stores for one player, given the answer of
\* getPlayerRecentMatchFromFotMob
storedFromPlayerApi(existingLastGame, fotmobMatch) ==
  IF fotmobMatch = Null THEN existingLastGame
  ELSE IF Val(fotmobMatch).date = Null THEN existingLastGame
  ELSE LET m == Val(fotmobMatch)
       IN Some([fixtureId |-> m.fixtureId, date |-> Val(m.date),
                homeTeam |-> m.homeTeam, awayTeam |-> m.awayTeam,
                isHome |-> m.isHome, events |-> m.events,
                participated |-> m.participated,
                minutesPlayed |-> m.minutesPlayed,
                started |-> m.started,
                goals |-> m.goals, assists |-> m.assists,
                rating |-> m.rating,
                source |-> "fotmob_player_api",
                missedGame |-> m.missedGame])

\* 786-825: the first tier, the per-player history
lastGameFromPlayerApi(lg, roster, recent, teamLast) ==
  [id \in PlayerIds |->
     IF roster[id].fotmobId # Null /\ needsFotMobData(lg[id])
     THEN storedFromPlayerApi(
            lg[id],
            getPlayerRecentMatchFromFotMob(roster[id], recent[id],
                                           teamLast[roster[id].team]))
     ELSE lg[id]]

\* lastGameFromTeamLineup as it would be without the filter of 839: every
\* player of the team is given the record of the snapshot
lastGameFromTeamLineupOverwriting(lg, roster, teamDataOf, lineupStats) ==
  [id \in PlayerIds |->
     LET teamName == roster[id].team
         teamData == teamDataOf[teamName]
     IN IF teamData = Null THEN lg[id]
        ELSE IF ~Val(teamData).lastLineupStats \/ Val(teamData).lastMatch = Null
        THEN lg[id]
        ELSE IF lineupStats[id] = Null THEN lg[id]
        ELSE LET lastMatch == Val(Val(teamData).lastMatch)
                 stats == Val(lineupStats[id])
             IN Some([fixtureId |-> Some(lastMatch.id), date |-> lastMatch.date,
                      homeTeam |-> lastMatch.homeName,
                      awayTeam |-> lastMatch.awayName,
                      isHome |-> /\ TEAM_IDS(teamName) # Null
                                 /\ lastMatch.homeId = Val(TEAM_IDS(teamName)),
                      events |-> stats.events,
                      participated |-> stats.participated,
                      minutesPlayed |-> Null,
                      started |-> stats.started,
                      goals |-> stats.goals, assists |-> stats.assists,
                      rating |-> stats.rating,
                      source |-> "fotmob_team_lineup",
                      missedGame |-> Null])]

\* 837-888: the second tier, the team's lineup snapshot.  TEAM_IDS[teamName]
\* is undefined for a club without an entry, and no id equals undefined
lastGameFromTeamLineup(lg, roster, teamDataOf, lineupStats) ==
  [id \in PlayerIds |->
     LET teamName == roster[id].team
         teamData == teamDataOf[teamName]
     IN IF lg[id] # Null THEN lg[id]
        ELSE IF teamData = Null THEN lg[id]
        ELSE IF ~Val(teamData).lastLineupStats \/ Val(teamData).lastMatch = Null
        THEN lg[id]
        ELSE IF lineupStats[id] = Null THEN lg[id]
        ELSE LET lastMatch == Val(Val(teamData).lastMatch)
                 stats == Val(lineupStats[id])
             IN Some([fixtureId |-> Some(lastMatch.id), date |-> lastMatch.date,
                      homeTeam |-> lastMatch.homeName,
                      awayTeam |-> lastMatch.awayName,
                      isHome |-> /\ TEAM_IDS(teamName) # Null
                                 /\ lastMatch.homeId = Val(TEAM_IDS(teamName)),
                      events |-> stats.events,
                      participated |-> stats.participated,
                      minutesPlayed |-> Null,
                      started |-> stats.started,
                      goals |-> stats.goals, assists |-> stats.assists,
                      rating |-> stats.rating,
                      source |-> "fotmob_team_lineup",
                      missedGame |-> Null])]

\* matches.sort((a, b) => new Date(b.utcDate) - new Date(a.utcDate)): most
\* recent first, fixtures of one date in the order of the response
RECURSIVE sortByDateDesc(_)
sortByDateDesc(matches) ==
  IF matches = << >> THEN << >>
  ELSE LET latest == CHOOSE i \in 1..Len(matches) :
                       /\ \A j \in 1..Len(matches) :
                            matches[j].utcDate <= matches[i].utcDate
                       /\ \A j \in 1..(i - 1) :
                            matches[j].utcDate < matches[i].utcDate
       IN <<matches[latest]>>
          \o sortByDateDesc(SubSeq(matches, 1, latest - 1)
                            \o SubSeq(matches, latest + 1, Len(matches)))

\* 913-916
isRecent(match, clock) == clock - match.utcDate < 48

\* 960-998: participation from what the detail has of the player: in the
\* lineup of the team, on its bench, and the events
participationOf(inLineup, inBench, playerEvents) ==
  LET onBench == ~inLineup /\ inBench
      started1 == IF onBench THEN Some(FALSE)
                  ELSE IF inLineup THEN Some(TRUE) ELSE Null
  IN IF Len(playerEvents) > 0
     THEN [participated |-> Some(TRUE),
           minutesPlayed |-> Some(calculateMinutesPlayed(playerEvents, 90)),
           started |-> IF hasEventOfType(playerEvents, "sub_in") THEN Some(FALSE)
                       ELSE IF started1 = Null THEN Some(TRUE)
                       ELSE started1,
           events |-> playerEvents]
     ELSE IF started1 = Some(FALSE)
     THEN [participated |-> Some(FALSE), minutesPlayed |-> Some(0),
           started |-> started1, events |-> playerEvents]
     ELSE [participated |-> IF inLineup THEN Some(TRUE) ELSE Null,
           minutesPlayed |-> IF inLineup THEN Some(90) ELSE Null,
           started |-> started1, events |-> playerEvents]

\* 949-999: participation of one player from the match detail (Null: the
\* detail was not requested, or the request failed)
lastGameParticipation(matchDetails, player, isHome) ==
  IF matchDetails = Null
  THEN [participated |-> Null, minutesPlayed |-> Null, started |-> Null,
        events |-> << >>]
  ELSE participationOf(
         listNames(IF isHome THEN Val(matchDetails).homeLineup
                   ELSE Val(matchDetails).awayLineup, player.name),
         listNames(IF isHome THEN Val(matchDetails).homeBench
                   ELSE Val(matchDetails).awayBench, player.name),
         parsePlayerEvents(Val(matchDetails), player.name, isHome))

\* 1002-1005, 1032-1049: the record from the fixture and the participation
lastGameBase(match, isHome, part) ==
  [fixtureId |-> Null, date |-> match.utcDate,
   homeTeam |-> match.homeTeam, awayTeam |-> match.awayTeam,
   isHome |-> isHome, events |-> part.events,
   participated |-> part.participated,
   minutesPlayed |-> part.minutesPlayed,
   started |-> part.started,
   goals |-> countEvents(part.events, "goal"),
   assists |-> countEvents(part.events, "assist"),
   rating |-> Null, source |-> "api", missedGame |-> Null]

\* 1010-1035: the statistics of the FotMob cache or of the manual store put
\* over those of the match detail
withStoredStats(base, fotmobMatch, manualMatch) ==
  IF fotmobMatch # Null
  THEN LET f == Val(fotmobMatch)
       IN [base EXCEPT
             !.fixtureId = f.matchId,
             !.events = IF f.events = Null THEN << >> ELSE Val(f.events),
             !.minutesPlayed = orZero(f.minutesPlayed),
             !.started = f.started,
             !.participated = f.participated,
             !.goals = IF f.goals = Null THEN 0 ELSE Val(f.goals),
             !.assists = IF f.assists = Null THEN 0 ELSE Val(f.assists),
             !.rating = f.rating,
             !.source = "fotmob"]
  ELSE IF manualMatch # Null
  THEN LET m == Val(manualMatch)
       IN [base EXCEPT
             !.events = m.events,
             !.minutesPlayed = orZero(m.minutesPlayed),
             !.started = m.started,
             !.participated = m.participated,
             !.source = "manual"]
  ELSE base

\* 1002-1049: the record of the third tier
lastGameFromFixture(match, matchDetails, player, isHome, fotmobMatch, manualMatch) ==
  withStoredStats(
    lastGameBase(match, isHome, lastGameParticipation(matchDetails, player, isHome)),
    fotmobMatch, manualMatch)

\* 905-927: the fixtures of the sorted list that are finished and have the
\* player's team
finishedFixturesOf(sorted, teamName) ==
  SelectSeq(sorted, LAMBDA match :
    /\ getMatchStatus(match) = "finished"
    /\ isHomeOf(match.homeTeam, match.awayTeam, teamName) # Null)

\* 929-1053: what the third tier stores for one player, given the finished
\* fixtures of the player's team, most recent first
storedFromFixtures(existingLastGame, mine, player, fd, manual, clock, detailsOf) ==
  IF existingLastGame # Null \/ mine = << >> THEN existingLastGame
  ELSE LET match == mine[1]
       IN Some(lastGameFromFixture(
                 match,
                 IF isRecent(match, clock) THEN detailsOf[match.id] ELSE Null,
                 player,
                 Val(isHomeOf(match.homeTeam, match.awayTeam, player.team)),
                 findFotMobMatchForDate(fd, player.id, match.utcDate),
                 findManualMatchForDate(manual, player.id, match.utcDate)))

\* 894-1053: the third tier.  matches is what fetchMatches returned (the
\* empty list when the request failed), detailsOf the answer of
\* getMatchDetails per fixture id (Null: the request fails)
lastGameFromFootballData(lg, roster, fd, manual, clock, matches, detailsOf) ==
  [id \in PlayerIds |->
     storedFromFixtures(lg[id],
                        finishedFixturesOf(sortByDateDesc(matches), roster[id].team),
                        roster[id], fd, manual, clock, detailsOf)]

\* this.lastGameData after updateLastGameData
updateLastGameData(lg, roster, fd, manual, clock, recent, teamLast, teamDataOf, lineupStats, matches, detailsOf) ==
  lastGameFromFootballData(
    lastGameFromTeamLineup(
      lastGameFromPlayerApi(lg, roster, recent, teamLast),
      roster, teamDataOf, lineupStats),
    roster, fd, manual, clock, matches, detailsOf)

(***************************************************************************)
(* The scheduler: startPolling (1485-1544) with its closure pollForUpdates *)
(* (1513-1538), and stopPolling (1547-1554)                                *)
(*                                                                         *)
(* Every call of startPolling that passes the isPolling test has its own   *)
(* closure variables normalIntervalMs, currentInterval and isLive, and its *)
(* own pollForUpdates.  An await is a point where other callbacks run: a   *)
(* stage of the initial run and a stage of a tick are one step each.       *)
(* setInterval fires its callback every ms milliseconds whether or not an  *)
(* earlier call of the callback has finished.  The maps the stages         *)
(* updateFotMobData, updateLastGameData and updateNextGameData write are   *)
(* the subject of SpecLast; here the stages only take their turn.          *)
(***************************************************************************)
liveIntervalMs == 60000

\* the default of startPolling's parameter, which server.js passes as well
intervalMs == 300000

\* the most calls of startPolling that pass the isPolling test
MaxStarts == 2

\* the most runs of pollForUpdates in flight at a time
MaxInFlight == 2

Starts == 1..MaxStarts

\* the stages as they would be with updateLastGameData awaited before
\* updateFotMobData
InitialStagesLastGameFirst ==
  <<"updateMatchData", "updateMatchDataFromFotMob", "updateLastGameData",
    "updateFotMobData", "updateNextGameData">>

\* 1495-1504: the stages startPolling awaits, in the order of the calls
InitialStages ==
  <<"updateMatchData", "updateMatchDataFromFotMob", "updateFotMobData",
    "updateLastGameData", "updateNextGameData">>

\* a closure before the call, and after line 1491
closureNotCalled ==
  [pc |-> "not_called", normalIntervalMs |-> Null, currentInterval |-> Null,
   isLive |-> Null]

noTicks == [updateMatchData |-> 0, updateMatchDataFromFotMob |-> 0]

ticksInFlight ==
  LET RECURSIVE sumFrom(_)
      sumFrom(i) ==
        IF i > MaxStarts THEN 0
        ELSE ticks[i].updateMatchData + ticks[i].updateMatchDataFromFotMob
             + sumFrom(i + 1)
  IN sumFrom(1)

initialRunsInFlight ==
  Cardinality({ i \in Starts : closures[i].pc \notin {"not_called", "armed"} })

\* setInterval: the timer a call creates (the smallest id not in use)
newTimer(owner, ms) ==
  LET used == { t.id : t \in timers }
      id == CHOOSE n \in 1..(Cardinality(timers) + 1) :
              n \notin used /\ \A m \in 1..(n - 1) : m \in used
  IN [id |-> id, owner |-> owner, ms |-> ms]

\* clearInterval(handle): clearing null or a cleared timer does nothing
clearInterval(ts, handle) ==
  IF handle = Null THEN ts ELSE { t \in ts : t.id # Val(handle) }

\* what FotMob answers for the players of a match whose detail page is
\* blocked
noStats == [id \in PlayerIds |-> Null]

\* the fixture Norwich City v West Ham as FotMob's team endpoint has it
fotmobNorWhu(started, finished) ==
  [id |-> 202, today |-> TRUE, date |-> 100,
   finished |-> finished, started |-> started,
   homeName |-> NorwichCity, homeId |-> 9850,
   awayName |-> WestHam, awayId |-> 8654,
   liveTime |-> IF started /\ ~finished THEN Some(30) ELSE Null]

\* getTeamData("Norwich City") before, during and after that fixture
teamDataNorwich(phase) ==
  [name |-> Some(NorwichCity), id |-> Some(9850), lastLineupStats |-> FALSE,
   nextMatch |-> IF phase = "finished" THEN Null
                 ELSE Some(fotmobNorWhu(phase = "live", FALSE)),
   lastMatch |-> IF phase = "finished" THEN Some(fotmobNorWhu(TRUE, TRUE))
                 ELSE Null]

FotMobPhases == {"upcoming", "live", "finished"}

RosterTeams == { RosterAtStart[id].team : id \in PlayerIds }

\* 1485-1495: a call of startPolling up to its first await
StartPolling ==
  /\ isPolling = FALSE
  /\ \E i \in Starts :
       /\ closures[i].pc = "not_called"
       /\ \A j \in 1..(i - 1) : closures[j].pc # "not_called"
       /\ closures' = [closures EXCEPT
                         ![i].pc = InitialStages[1],
                         ![i].normalIntervalMs = Some(intervalMs)]
  /\ isPolling' = TRUE
  /\ UNCHANGED <<pollInterval, timers, ticks>>
  /\ UNCHANGED <<todayVars, fmVars, notSched>>

\* 1486-1489: a call of startPolling while isPolling is set returns at once
StartPollingWhilePolling ==
  /\ isPolling = TRUE
  /\ UNCHANGED vars

\* 1495: the initial run's updateMatchData() completes (the fixture request
\* answers or fails; the detail request answers)
InitialUpdateMatchData(i) ==
  /\ closures[i].pc = "updateMatchData"
  /\ \E listOk \in BOOLEAN :
       matchData' = updateMatchData(matchData, players,
                                    IF listOk THEN fdToday ELSE << >>,
                                    Some(fdDetails))
  /\ closures' = [closures EXCEPT ![i].pc = "updateMatchDataFromFotMob"]
  /\ UNCHANGED <<isPolling, pollInterval, timers, ticks>>
  /\ UNCHANGED <<players, fdToday, fdDetails, fmVars, notSched>>

\* 1498: the initial run's updateMatchDataFromFotMob() completes
InitialUpdateMatchDataFromFotMob(i) ==
  /\ closures[i].pc = "updateMatchDataFromFotMob"
  /\ matchData' = updateMatchDataFromFotMob(matchData, players, fmTeam,
                                            noStats, noStats)
  /\ closures' = [closures EXCEPT ![i].pc = "updateFotMobData"]
  /\ UNCHANGED <<isPolling, pollInterval, timers, ticks>>
  /\ UNCHANGED <<players, fdToday, fdDetails, fmVars, notSched>>

\* 1501, 1503: updateFotMobData() or updateLastGameData() completes
InitialHistoryStage(i) ==
  /\ \E k \in {3, 4} :
       /\ closures[i].pc = InitialStages[k]
       /\ closures' = [closures EXCEPT ![i].pc = InitialStages[k + 1]]
  /\ UNCHANGED <<isPolling, pollInterval, timers, ticks>>
  /\ UNCHANGED <<todayVars, fmVars, notSched>>

\* 1504-1543: updateNextGameData() completes and the rest of startPolling
\* runs: the first timer is created
InitialArm(i) ==
  /\ closures[i].pc = "updateNextGameData"
  /\ LET live == hasLiveMatches(matchData)
         ms == IF live THEN liveIntervalMs ELSE Val(closures[i].normalIntervalMs)
         t == newTimer(i, ms)
     IN /\ closures' = [closures EXCEPT ![i].pc = "armed",
                                        ![i].isLive = Some(live),
                                        ![i].currentInterval = Some(ms)]
        /\ timers' = timers \cup {t}
        /\ pollInterval' = Some(t.id)
  /\ UNCHANGED <<isPolling, ticks>>
  /\ UNCHANGED <<todayVars, fmVars, notSched>>

\* a timer fires: its owner's pollForUpdates starts and reaches the await
\* of line 1515
TimerFires ==
  /\ ticksInFlight < MaxInFlight
  /\ \E t \in timers :
       ticks' = [ticks EXCEPT ![t.owner].updateMatchData = @ + 1]
  /\ UNCHANGED <<isPolling, pollInterval, timers, closures>>
  /\ UNCHANGED <<todayVars, fmVars, notSched>>

\* 1515-1522: updateMatchData(true) completes, isLive is assigned and
\* updateMatchDataFromFotMob(isLive) is called
TickUpdateMatchData(i) ==
  /\ ticks[i].updateMatchData > 0
  /\ \E listOk \in BOOLEAN :
       matchData' = updateMatchData(matchData, players,
                                    IF listOk THEN fdToday ELSE << >>,
                                    Some(fdDetails))
  /\ closures' = [closures EXCEPT ![i].isLive = Some(hasLiveMatches(matchData'))]
  /\ ticks' = [ticks EXCEPT ![i].updateMatchData = @ - 1,
                            ![i].updateMatchDataFromFotMob = @ + 1]
  /\ UNCHANGED <<isPolling, pollInterval, timers>>
  /\ UNCHANGED <<players, fdToday, fdDetails, fmVars, notSched>>

\* 1522-1537: updateMatchDataFromFotMob(isLive) completes and the timer is
\* replaced when the interval differs from the closure's currentInterval
TickUpdateMatchDataFromFotMob(i) ==
  /\ ticks[i].updateMatchDataFromFotMob > 0
  /\ matchData' = updateMatchDataFromFotMob(matchData, players, fmTeam,
                                            noStats, noStats)
  /\ ticks' = [ticks EXCEPT ![i].updateMatchDataFromFotMob = @ - 1]
  /\ LET newInterval == IF Val(closures[i].isLive) THEN liveIntervalMs
                        ELSE Val(closures[i].normalIntervalMs)
     IN IF Some(newInterval) # closures[i].currentInterval
        THEN LET cleared == clearInterval(timers, pollInterval)
                 used == { t.id : t \in cleared }
                 id == CHOOSE n \in 1..(Cardinality(cleared) + 1) :
                         n \notin used /\ \A m \in 1..(n - 1) : m \in used
             IN /\ closures' = [closures EXCEPT ![i].currentInterval = Some(newInterval)]
                /\ timers' = cleared \cup {[id |-> id, owner |-> i, ms |-> newInterval]}
                /\ pollInterval' = Some(id)
        ELSE UNCHANGED <<closures, timers, pollInterval>>
  /\ UNCHANGED isPolling
  /\ UNCHANGED <<players, fdToday, fdDetails, fmVars, notSched>>

\* 1547-1554
StopPolling ==
  /\ isPolling = TRUE \/ pollInterval # Null
  /\ timers' = clearInterval(timers, pollInterval)
  /\ pollInterval' = Null
  /\ isPolling' = FALSE
  /\ UNCHANGED <<closures, ticks>>
  /\ UNCHANGED <<todayVars, fmVars, notSched>>

\* Football-Data.org: the fixture kicks off or ends
FdFixtureProgress ==
  /\ \E st \in {"TIMED", "IN_PLAY", "FINISHED"} :
       /\ fdToday # <<fixturePhiTor(st, Null)>>
       /\ fdToday' = <<fixturePhiTor(st, Null)>>
  /\ UNCHANGED <<players, matchData, fdDetails>>
  /\ UNCHANGED <<fmVars, schedVars, notSched>>

\* FotMob: the fixture kicks off or ends
FmFixtureProgress ==
  /\ \E phase \in FotMobPhases :
       /\ fmTeam[NorwichCity] # Some(teamDataNorwich(phase))
       /\ fmTeam' = [fmTeam EXCEPT ![NorwichCity] = Some(teamDataNorwich(phase))]
  /\ UNCHANGED <<todayVars, schedVars, notSched>>

InitSched ==
  /\ TeamIdle /\ MinIdle /\ LastIdle /\ CacheIdle /\ PipeIdle /\ CycleIdle
  /\ players = RosterAtStart
  /\ matchData = [id \in PlayerIds |-> Null]
  /\ fdToday = <<fixturePhiTor("TIMED", Null)>>
  /\ fdDetails = EmptyDetails
  /\ fmTeam = [t \in RosterTeams |->
                 IF t = NorwichCity THEN Some(teamDataNorwich("upcoming")) ELSE Null]
  /\ isPolling = FALSE
  /\ pollInterval = Null
  /\ timers = {}
  /\ closures = [i \in Starts |-> closureNotCalled]
  /\ ticks = [i \in Starts |-> noTicks]

NextSched ==
  \/ StartPolling
  \/ StartPollingWhilePolling
  \/ \E i \in Starts :
       \/ InitialUpdateMatchData(i)
       \/ InitialUpdateMatchDataFromFotMob(i)
       \/ InitialHistoryStage(i)
       \/ InitialArm(i)
       \/ TickUpdateMatchData(i)
       \/ TickUpdateMatchDataFromFotMob(i)
  \/ TimerFires
  \/ StopPolling
  \/ FdFixtureProgress
  \/ FmFixtureProgress

SpecSched == InitSched /\ [][NextSched]_vars

\* no initial run and no pollForUpdates run is in flight
noCycleInFlight == ticksInFlight = 0 /\ initialRunsInFlight = 0

\* the interval of the timer this.pollInterval refers to
scheduledMs ==
  LET t == CHOOSE x \in timers : x.id = Val(pollInterval) IN t.ms

\* C1: after a tick completes with a record of status live the next
\* scheduled tick uses the 60 s cadence, and after a tick completes with no
\* live record it uses the intervalMs cadence, also when the live status
\* appeared or disappeared through the FotMob update of that tick: with one
\* timer armed and no cycle in flight, the timer's interval is the one that
\* hasLiveMatches() calls for.
C1_CadenceFollowsLiveStatus ==
  (isPolling = TRUE /\ noCycleInFlight /\ pollInterval # Null
     /\ Cardinality(timers) = 1)
    => scheduledMs = IF hasLiveMatches(matchData) THEN liveIntervalMs
                     ELSE intervalMs

\* C2: after stopPolling() returns no timer is armed or re-armed and no
\* later tick fires, whatever stage of the initial run or of a tick was in
\* flight when it was called: while isPolling is false no timer is active.
C2_NoTimerAfterStop ==
  isPolling = FALSE => timers = {}

\* C3: at most one interval timer created by startPolling is active in
\* every reachable state.
C3_SingleTimer ==
  Cardinality(timers) <= 1

\* C4: at most one poll cycle (the initial run or a pollForUpdates tick) is
\* executing at a time; a tick never starts while another cycle is in flight.
C4_SingleWorker ==
  ticksInFlight + initialRunsInFlight <= 1

\* the position of a startPolling call and the position that follows it
InitialRunOrder ==
  { <<"not_called", "updateMatchData">>,
    <<"updateMatchData", "updateMatchDataFromFotMob">>,
    <<"updateMatchDataFromFotMob", "updateFotMobData">>,
    <<"updateFotMobData", "updateLastGameData">>,
    <<"updateLastGameData", "updateNextGameData">>,
    <<"updateNextGameData", "armed">> }

\* C30: a call of startPolling runs updateMatchData,
\* updateMatchDataFromFotMob, updateFotMobData, updateLastGameData and
\* updateNextGameData in that order, one stage at a time, each entered when
\* the one before it has completed, and a timer of the call exists only
\* after updateNextGameData has completed.
C30_InitialRunInOrder ==
  [][ \A i \in Starts :
        /\ closures'[i].pc # closures[i].pc
             => <<closures[i].pc, closures'[i].pc>> \in InitialRunOrder
        /\ \A t \in timers' : t.owner = i => closures'[i].pc = "armed" ]_vars

\* an initial run has gone through its stages and armed its timer
C30_InitialRunArmed ==
  \E i \in Starts :
    /\ closures[i].pc = "armed"
    /\ \E t \in timers : t.owner = i

(***************************************************************************)
(* SpecLast: updateFotMobData and updateLastGameData over the feeds, with  *)
(* the process restarted on a changed roster (this.players is read from    *)
(* players.json by the constructor only)                                   *)
(***************************************************************************)
\* the hours the clock advances
MaxHours == 1

\* players.json after Josh Sargent's move from Norwich City to Toronto FC
RosterAfterTransfer == [RosterAtStart EXCEPT ![3].team = TorontoFC]

\* a finished or postponed fixture of the last ten days
recentFixture(id, utcDate, status, homeTeam, awayTeam) ==
  [id |-> id, utcDate |-> utcDate, status |-> status,
   homeTeam |-> homeTeam, awayTeam |-> awayTeam, minute |-> Null]

\* the response to the fixture request of updateLastGameData
RecentFixtures ==
  << recentFixture(103, 30, "FINISHED", NorwichCity, WestHam),
     recentFixture(101, 80, "FINISHED", PhiladelphiaUnion, TorontoFC),
     recentFixture(104, 85, "POSTPONED", NorwichCity, TorontoFC) >>

\* the match detail of fixture 101: no lineups and no entries; lineups only;
\* lineups and a substitution
DetailCatalogue ==
  { EmptyDetails,
    [EmptyDetails EXCEPT !.homeLineup = <<QSullivan>>, !.homeBench = <<CSullivan>>,
                         !.awayLineup = << >>, !.awayBench = <<JSargent>>],
    [EmptyDetails EXCEPT !.homeLineup = <<QSullivan>>, !.homeBench = <<CSullivan>>,
                         !.awayLineup = <<JSargent>>, !.awayBench = << >>,
                         !.substitutions =
                           <<[playerOut |-> QSullivan, playerIn |-> CSullivan,
                              minute |-> 60]>>] }

\* an entry of a player's history
historyEntry(matchId, date, homeTeam, awayTeam, participated, onBench) ==
  [matchId |-> Some(matchId), date |-> date,
   homeTeam |-> homeTeam, awayTeam |-> awayTeam,
   participated |-> Some(participated),
   minutesPlayed |-> Some(IF participated THEN 90 ELSE 0),
   started |-> Some(participated),
   rating |-> IF participated THEN Some(7) ELSE Null,
   goals |-> 0, assists |-> 0, events |-> << >>, onBench |-> onBench]

\* the histories getPlayerRecentMatches has for Josh Sargent: a game played
\* for Norwich City; a later Norwich City game he sat out on top of it; a
\* game played for Toronto FC on top of those; and the game he sat out alone
SargentHistories ==
  { << historyEntry(202, 30, NorwichCity, WestHam, TRUE, FALSE) >>,
    << historyEntry(205, 78, NorwichCity, WestBromwichAlbion, FALSE, TRUE) >>,
    << historyEntry(205, 78, NorwichCity, WestBromwichAlbion, FALSE, TRUE),
       historyEntry(202, 30, NorwichCity, WestHam, TRUE, FALSE) >>,
    << historyEntry(201, 80, PhiladelphiaUnion, TorontoFC, TRUE, FALSE),
       historyEntry(205, 78, NorwichCity, WestBromwichAlbion, FALSE, TRUE),
       historyEntry(202, 30, NorwichCity, WestHam, TRUE, FALSE) >> }

\* a match of FotMob's team endpoint that is over
fotmobPlayed(id, date, homeName, homeId, awayName, awayId) ==
  [id |-> id, today |-> FALSE, date |-> date, finished |-> TRUE, started |-> TRUE,
   homeName |-> homeName, homeId |-> homeId,
   awayName |-> awayName, awayId |-> awayId, liveTime |-> Null]

\* getTeamData per team: the last match and a lineup snapshot
teamDataLast(teamName) ==
  [name |-> Some(teamName), id |-> TEAM_IDS(teamName), lastLineupStats |-> TRUE,
   nextMatch |-> Null,
   lastMatch |->
     Some(IF teamName = NorwichCity
          THEN fotmobPlayed(205, 78, NorwichCity, 9850, WestBromwichAlbion, 8659)
          ELSE fotmobPlayed(201, 80, PhiladelphiaUnion, 8586, TorontoFC, 56453))]

\* getTeamLastMatch per team
teamLastMatchOf(teamName) ==
  LET m == Val(teamDataLast(teamName).lastMatch)
  IN [id |-> m.id, date |-> m.date, homeTeam |-> m.homeName,
      awayTeam |-> m.awayName, isHome |-> teamMatchesOf(m.homeName, teamName)]

AllTeams == {PhiladelphiaUnion, NorwichCity, TorontoFC}

\* what the statistics lookups of one pass have: nothing (the pages are
\* blocked), the lineup snapshot only, or the match statistics as well
FotMobScenarios == {"blocked", "lineup", "detail"}

\* getPlayerStatsFromTeamLineup for the players of Philadelphia Union:
\* Quinn Sullivan started, Cavan Sullivan stayed on the bench
lineupStatsIn(scenario) ==
  [id \in PlayerIds |->
     IF scenario = "blocked" \/ id = 3 THEN Null
     ELSE Some([participated |-> Some(id = 1), started |-> Some(id = 1),
                onBench |-> id = 2, rating |-> IF id = 1 THEN Some(7) ELSE Null,
                goals |-> 0, assists |-> 0, events |-> << >>])]

\* getPlayerLastMatchStats for the same players
lastStatsIn(scenario) ==
  [id \in PlayerIds |->
     IF scenario # "detail" \/ id = 3 THEN Null
     ELSE Some([matchId |-> Some(201), date |-> 80,
                homeTeam |-> PhiladelphiaUnion, awayTeam |-> TorontoFC,
                participated |-> Some(id = 1),
                minutesPlayed |-> Some(IF id = 1 THEN 90 ELSE 0),
                started |-> Some(id = 1),
                rating |-> IF id = 1 THEN Some(7) ELSE Null,
                goals |-> 0, assists |-> 0, events |-> << >>])]

\* how the requests of one pass go: every request answers, under each of the
\* scenarios; or, with the statistics pages blocked, one kind of request
\* fails, or all do
allAnswer(scenario) ==
  [scenario |-> scenario, recentOk |-> TRUE, teamOk |-> TRUE, listOk |-> TRUE,
   detailOk |-> TRUE]

PassAnswers ==
  { allAnswer(scenario) : scenario \in FotMobScenarios }
  \cup { [allAnswer("blocked") EXCEPT !.recentOk = FALSE],
         [allAnswer("blocked") EXCEPT !.teamOk = FALSE],
         [allAnswer("blocked") EXCEPT !.listOk = FALSE],
         [allAnswer("blocked") EXCEPT !.detailOk = FALSE],
         [scenario |-> "blocked", recentOk |-> FALSE, teamOk |-> FALSE,
          listOk |-> FALSE, detailOk |-> FALSE] }

\* the manual store: empty, or one entry for Cavan Sullivan on the day of
\* fixture 101
ManualCatalogue ==
  { [id \in PlayerIds |-> Null],
    [id \in PlayerIds |->
       IF id = 2
       THEN Some(<<[date |-> 3, minutesPlayed |-> Some(30),
                    started |-> Some(FALSE),
                    events |-> <<[type |-> "sub_in", minute |-> 60]>>]>>)
       ELSE Null] }

InitLast ==
  /\ TeamIdle /\ MinIdle /\ SchedIdle /\ CacheIdle /\ PipeIdle /\ CycleIdle
  /\ players = RosterAtStart
  /\ matchData = Null /\ fdToday = Null
  /\ fdDetails \in DetailCatalogue
  /\ fmTeam = [t \in AllTeams |-> Some(teamDataLast(t))]
  /\ fmRecent \in { [id \in PlayerIds |-> IF id = 3 THEN Some(h) ELSE Null] :
                     h \in SargentHistories }
  /\ now = 100
  /\ fdRecent = RecentFixtures
  /\ lastGameData = [id \in PlayerIds |-> Null]
  /\ fotmobData = [id \in PlayerIds |-> Null]
  /\ fotmobCacheFile = [id \in PlayerIds |-> Null]
  /\ manualStats \in ManualCatalogue

\* one pass of updateFotMobData; each lookup answers or fails
UpdateFotMobData ==
  /\ \E a \in { x \in PassAnswers : x.listOk /\ x.detailOk } :
       LET recent == IF a.recentOk THEN fmRecent ELSE [id \in PlayerIds |-> Null]
           teamDataOf == IF a.teamOk THEN fmTeam ELSE [t \in AllTeams |-> Null]
       IN /\ fotmobData' = updateFotMobData(fotmobData, players, now, recent,
                                            lastStatsIn(a.scenario),
                                            lineupStatsIn(a.scenario), teamDataOf)
          /\ fotmobCacheFile' =
               IF fotmobUpdatedCount(fotmobData, players, now, recent,
                                     lastStatsIn(a.scenario),
                                     lineupStatsIn(a.scenario), teamDataOf) > 0
               THEN fotmobData' ELSE fotmobCacheFile
  /\ UNCHANGED <<fmRecent, now, fdRecent, lastGameData, manualStats>>
  /\ UNCHANGED <<todayVars, fmVars, notLast>>

\* one pass of updateLastGameData; each lookup answers or fails
UpdateLastGameData ==
  /\ \E a \in PassAnswers :
       lastGameData' =
         updateLastGameData(
           lastGameData, players, fotmobData, manualStats, now,
           IF a.recentOk THEN fmRecent ELSE [id \in PlayerIds |-> Null],
           [t \in AllTeams |-> IF a.teamOk THEN Some(teamLastMatchOf(t)) ELSE Null],
           IF a.teamOk THEN fmTeam ELSE [t \in AllTeams |-> Null],
           lineupStatsIn(a.scenario),
           IF a.listOk THEN fdRecent ELSE << >>,
           [id \in {101, 103, 104} |->
              IF a.detailOk /\ id = 101 THEN Some(fdDetails) ELSE Null])
  /\ UNCHANGED <<fmRecent, now, fdRecent, fotmobData, fotmobCacheFile, manualStats>>
  /\ UNCHANGED <<todayVars, fmVars, notLast>>

\* the process is started again (constructor, 15-32), with players.json as
\* it was or after the transfer
Restart ==
  /\ \E roster \in {RosterAtStart, RosterAfterTransfer} : players' = roster
  /\ lastGameData' = [id \in PlayerIds |-> Null]
  /\ fotmobData' = loadFotMobCache(fotmobCacheFile, now)
  /\ UNCHANGED <<fmRecent, now, fdRecent, fotmobCacheFile, manualStats>>
  /\ UNCHANGED <<matchData, fdToday, fdDetails, fmVars, notLast>>

\* an hour passes
HourPasses ==
  /\ now < 100 + MaxHours
  /\ now' = now + 1
  /\ UNCHANGED <<fmRecent, fdRecent, lastGameData, fotmobData, fotmobCacheFile,
                 manualStats>>
  /\ UNCHANGED <<todayVars, fmVars, notLast>>

\* FotMob's history of the player changes
FmHistoryChange ==
  /\ \E h \in SargentHistories :
       /\ fmRecent[3] # Some(h)
       /\ fmRecent' = [fmRecent EXCEPT ![3] = Some(h)]
  /\ UNCHANGED <<now, fdRecent, lastGameData, fotmobData, fotmobCacheFile,
                 manualStats>>
  /\ UNCHANGED <<todayVars, fmVars, notLast>>

NextLast ==
  UpdateFotMobData \/ UpdateLastGameData \/ Restart \/ HourPasses \/ FmHistoryChange

SpecLast == InitLast /\ [][NextLast]_vars

\* a lineup, bench, goal, substitution or booking entry of the detail has
\* the player's last name
feedNamesPlayer(det, playerName) ==
  \/ \E list \in {det.homeLineup, det.homeBench, det.awayLineup, det.awayBench} :
       listNames(list, playerName)
  \/ Len(parsePlayerEvents(det, playerName, TRUE)) > 0

\* the LastGame record r of player id keeps as unknown what its source, as
\* the pass found it, has as unknown: the entry of the FotMob cache for a
\* record of source fotmob, the match detail for a record of source api
unknownKept(id, r) ==
  CASE r.source = "fotmob" ->
         LET c == Val(fotmobData[id]).lastMatch
         IN /\ (c.participated = Null => r.participated = Null)
            /\ (c.started = Null => r.started = Null)
            /\ (c.minutesPlayed = Null /\ c.participated # Some(FALSE)
                  => r.minutesPlayed = Null)
    [] r.source = "api" ->
         ~feedNamesPlayer(fdDetails, players[id].name)
           => r.participated = Null /\ r.started = Null /\ r.minutesPlayed = Null
    [] OTHER -> TRUE

\* C5: a value of participated, started or minutesPlayed that the feed
\* behind a record does not know stays unknown (null) in the record; no pass
\* of updateLastGameData, with its overrides from the FotMob cache, turns an
\* unknown value into false or 0.
C5_UnknownStaysUnknown ==
  [][ \A id \in PlayerIds :
        (lastGameData'[id] # lastGameData[id] /\ lastGameData'[id] # Null)
          => unknownKept(id, Val(lastGameData'[id])) ]_vars

\* C6: no LastGame of the cycle after a roster change carries a MissedGame
\* whose home and away teams both fail to match the player's current roster
\* team.
C6_MissedGameOfCurrentTeam ==
  \A id \in PlayerIds :
    (lastGameData[id] # Null /\ Val(lastGameData[id]).missedGame # Null) =>
      LET missed == Val(Val(lastGameData[id]).missedGame)
      IN \/ teamMatchesOf(missed.homeTeam, players[id].team)
         \/ teamMatchesOf(missed.awayTeam, players[id].team)

\* C20: a LastGame from the per-player history is the most recent entry of
\* the history in which the player participated: every record written with
\* source fotmob_player_api has participated = true, and no entry of the
\* history with participated = true is more recent than it.
C20_LastGameIsLatestParticipation ==
  [][ \A id \in PlayerIds :
        (lastGameData'[id] # lastGameData[id] /\ lastGameData'[id] # Null
           /\ Val(lastGameData'[id]).source = "fotmob_player_api")
          => LET r == Val(lastGameData'[id])
             IN /\ r.participated = Some(TRUE)
                /\ fmRecent[id] # Null =>
                     \A i \in 1..Len(Val(fmRecent[id])) :
                       LET e == Val(fmRecent[id])[i]
                       IN e.participated = Some(TRUE) => e.date <= r.date ]_vars

\* C21: every stored MissedGame is strictly more recent than its LastGame,
\* whether it is the head of the player's history or the last match of the
\* team.
C21_MissedGameIsMoreRecent ==
  \A id \in PlayerIds :
    lastGameData[id] # Null =>
      (Val(lastGameData[id]).missedGame # Null =>
         Val(Val(lastGameData[id]).missedGame).date > Val(lastGameData[id]).date)

\* a LastGame is stored with a MissedGame taken from the team's last match
C21_TeamMissedGameStored ==
  \E id \in PlayerIds :
    /\ lastGameData[id] # Null
    /\ Val(lastGameData[id]).missedGame # Null
    /\ Val(Val(lastGameData[id]).missedGame).onBench = Null

\* the side isHome names is a side that matches the roster team
isHomeAgrees(isHome, homeTeam, awayTeam, teamName) ==
  IF isHome THEN teamMatchesOf(homeTeam, teamName)
  ELSE teamMatchesOf(awayTeam, teamName)

(***************************************************************************)
(* SpecFresh: the age of the FotMob per-player cache.  The stages and the  *)
(* restart are those of SpecLast; the clock runs for MaxAgeHours, so that  *)
(* an entry can be more than one hour old.                                 *)
(***************************************************************************)
\* the hours the clock advances
MaxAgeHours == 2

InitFresh ==
  /\ InitLast
  /\ fdDetails = EmptyDetails
  /\ manualStats = [id \in PlayerIds |-> Null]

\* an hour passes
FreshHourPasses ==
  /\ now < 100 + MaxAgeHours
  /\ now' = now + 1
  /\ UNCHANGED <<fmRecent, fdRecent, lastGameData, fotmobData, fotmobCacheFile,
                 manualStats>>
  /\ UNCHANGED <<todayVars, fmVars, notLast>>

NextFresh ==
  \/ UpdateFotMobData \/ UpdateLastGameData \/ Restart \/ FreshHourPasses
  \/ FmHistoryChange

SpecFresh == InitFresh /\ [][NextFresh]_vars

\* the entry is less than one hour old
lessThanOneHourOld(entry) == now - entry.timestamp < 1

\* loadFotMobCache admits only entries less than one hour old
loadAdmitsOnlyFresh ==
  \A id \in PlayerIds :
    loadFotMobCache(fotmobCacheFile, now)[id] # Null
      => lessThanOneHourOld(Val(loadFotMobCache(fotmobCacheFile, now)[id]))

\* an entry less than one hour old is not replaced by updateFotMobData: it
\* changes only when the constructor reads the cache file
freshEntryNotQueried ==
  \A id \in PlayerIds :
    (/\ fotmobData[id] # Null
     /\ lessThanOneHourOld(Val(fotmobData[id]))
     /\ fotmobData'[id] # fotmobData[id])
      => fotmobData' = loadFotMobCache(fotmobCacheFile, now)

\* a LastGame record filled from this.fotmobData is filled from an entry
\* that is not older than one hour
lastGameFilledFromFresh ==
  \A id \in PlayerIds :
    (/\ lastGameData'[id] # lastGameData[id]
     /\ lastGameData'[id] # Null
     /\ Val(lastGameData'[id]).source = "fotmob")
      => /\ fotmobData[id] # Null
         /\ now - Val(fotmobData[id]).timestamp <= 1

\* C35: loadFotMobCache admits only entries whose timestamp is less than one
\* hour old, updateFotMobData leaves alone (asks nothing for) a player whose
\* entry is less than one hour old, and no entry of fotmobData older than
\* one hour is used to fill a LastGame record.
C35_PlayerCacheFreshness ==
  /\ []loadAdmitsOnlyFresh
  /\ [][freshEntryNotQueried /\ lastGameFilledFromFresh]_vars

(***************************************************************************)
(* SpecCache: the cache of the Football-Data.org adapter (footballData.js, *)
(* fetchFromApi) under the cycles of startPolling.  Time is Date.now() in  *)
(* milliseconds and advances in steps of StepMs.  A request takes time: it *)
(* is issued in one step and answered in a later one, and the answer is    *)
(* what upstream holds when it answers.  FotMob answers nothing here, so   *)
(* updateMatchDataFromFotMob leaves this.matchData alone.                  *)
(***************************************************************************)
\* footballData.js 10-11
cacheExpiry == 300000
liveCacheExpiry == 60000

\* the granularity of the clock and the last instant looked at
StepMs == 30000
MaxNowMs == 360000

\* getMatchesByDateRange(today, today, competitions) and getMatchDetails(101)
MatchesEndpoint == "/matches?dateFrom=today&dateTo=today"
DetailsEndpoint == "/matches/101"
Endpoints == {MatchesEndpoint, DetailsEndpoint}

\* cacheHit as it would be with the expiry of general data for every call
cacheHitGeneralExpiry(cache, endpoint, forLiveData, clock) ==
  LET cached == cache[endpoint]
  IN cached # Null /\ clock - Val(cached).timestamp < cacheExpiry

\* footballData.js 16-18: the cached entry answers the call
cacheHit(cache, endpoint, forLiveData, clock) ==
  LET cached == cache[endpoint]
      expiry == IF forLiveData THEN liveCacheExpiry ELSE cacheExpiry
  IN cached # Null /\ clock - Val(cached).timestamp < expiry

\* footballData.js 38-41
cacheSet(cache, endpoint, data, clock) ==
  [cache EXCEPT ![endpoint] = Some([data |-> data, timestamp |-> clock])]

\* 401-402: some fixture of a roster team is live or finished, so
\* getMatchDetails is called
wantsDetails(matches, roster) ==
  \E i \in 1..Len(matches) :
    /\ getMatchStatus(matches[i]) \in {"live", "finished"}
    /\ \E id \in PlayerIds :
         isHomeOf(matches[i].homeTeam, matches[i].awayTeam, roster[id].team) # Null

\* the frame of one updateMatchData(forLiveData) call: when it was called,
\* where it stands, what fetchMatches and getMatchDetails returned, and the
\* timestamp of the cache entry each answer is the data of
newCall(forLiveData, clock) ==
  [forLiveData |-> forLiveData, calledAt |-> clock, pc |-> "fetchMatches",
   matches |-> << >>, matchesAt |-> Null, details |-> Null, detailsAt |-> Null]

\* the detail of fixture PhiTor after the first goal
DetailsAfterGoal ==
  [EmptyDetails EXCEPT
     !.goals = <<[scorer |-> CSullivan, assist |-> Null, minute |-> 10]>>]

InitCache ==
  /\ TeamIdle /\ MinIdle /\ FmIdle /\ SchedIdle /\ LastIdle /\ PipeIdle /\ CycleIdle
  /\ players = RosterAtStart
  /\ matchData = [id \in PlayerIds |-> Null]
  /\ fdToday \in { <<fixturePhiTor(st, Null)>> : st \in {"TIMED", "IN_PLAY"} }
  /\ fdDetails = EmptyDetails
  /\ apiCache = [e \in Endpoints |-> Null]
  /\ nowMs = 0
  /\ currentInterval = intervalMs
  /\ nextFire = Null
  /\ call = Some(newCall(FALSE, 0))

\* 379 -> 364 -> footballData.js 16-28: fetchMatches asks the adapter, which
\* returns the cached response or issues the request
FetchMatches ==
  /\ call # Null /\ Val(call).pc = "fetchMatches"
  /\ IF cacheHit(apiCache, MatchesEndpoint, Val(call).forLiveData, nowMs)
     THEN call' = Some([Val(call) EXCEPT
                          !.pc = "getMatchDetails",
                          !.matches = Val(apiCache[MatchesEndpoint]).data,
                          !.matchesAt = Some(Val(apiCache[MatchesEndpoint]).timestamp)])
     ELSE call' = Some([Val(call) EXCEPT !.pc = "awaitMatches"])
  /\ UNCHANGED <<apiCache, nowMs, currentInterval, nextFire>>
  /\ UNCHANGED <<todayVars, notCache>>

\* footballData.js 28-48 and 369-372: the fixture request answers and is
\* cached, or fails and fetchMatches returns []
MatchesResponse ==
  /\ call # Null /\ Val(call).pc = "awaitMatches"
  /\ \E ok \in BOOLEAN :
       IF ok
       THEN /\ apiCache' = cacheSet(apiCache, MatchesEndpoint, fdToday, nowMs)
            /\ call' = Some([Val(call) EXCEPT
                               !.pc = "getMatchDetails",
                               !.matches = fdToday,
                               !.matchesAt = Some(nowMs)])
       ELSE /\ apiCache' = apiCache
            /\ call' = Some([Val(call) EXCEPT !.pc = "getMatchDetails"])
  /\ UNCHANGED <<nowMs, currentInterval, nextFire>>
  /\ UNCHANGED <<todayVars, notCache>>

\* 401-415 -> footballData.js 85-88, 16-28: getMatchDetails goes through
\* fetchFromApi without forLiveData
GetMatchDetails ==
  /\ call # Null /\ Val(call).pc = "getMatchDetails"
  /\ IF ~wantsDetails(Val(call).matches, players)
     THEN call' = Some([Val(call) EXCEPT !.pc = "store"])
     ELSE IF cacheHit(apiCache, DetailsEndpoint, FALSE, nowMs)
     THEN call' = Some([Val(call) EXCEPT
                          !.pc = "store",
                          !.details = Some(Val(apiCache[DetailsEndpoint]).data),
                          !.detailsAt = Some(Val(apiCache[DetailsEndpoint]).timestamp)])
     ELSE call' = Some([Val(call) EXCEPT !.pc = "awaitDetails"])
  /\ UNCHANGED <<apiCache, nowMs, currentInterval, nextFire>>
  /\ UNCHANGED <<todayVars, notCache>>

\* footballData.js 28-48 and 411-413: the detail request answers and is
\* cached, or fails and matchDetails stays null
DetailsResponse ==
  /\ call # Null /\ Val(call).pc = "awaitDetails"
  /\ \E ok \in BOOLEAN :
       IF ok
       THEN /\ apiCache' = cacheSet(apiCache, DetailsEndpoint, fdDetails, nowMs)
            /\ call' = Some([Val(call) EXCEPT
                               !.pc = "store",
                               !.details = Some(fdDetails),
                               !.detailsAt = Some(nowMs)])
       ELSE /\ apiCache' = apiCache
            /\ call' = Some([Val(call) EXCEPT !.pc = "store"])
  /\ UNCHANGED <<nowMs, currentInterval, nextFire>>
  /\ UNCHANGED <<todayVars, notCache>>

\* 417-505, then the rest of the cycle: the records are stored; the initial
\* run arms the timer (1510, 1541-1543), a tick re-arms it when the live
\* status changed (1518, 1531-1536)
StoreMatchData ==
  /\ call # Null /\ Val(call).pc = "store"
  /\ matchData' = updateMatchData(matchData, players, Val(call).matches,
                                  Val(call).details)
  /\ LET newInterval ==
           IF hasLiveMatches(matchData') THEN liveIntervalMs ELSE intervalMs
     IN IF Val(call).forLiveData /\ newInterval = currentInterval
        THEN UNCHANGED <<currentInterval, nextFire>>
        ELSE /\ currentInterval' = newInterval
             /\ nextFire' = Some(nowMs + newInterval)
  /\ call' = Null
  /\ UNCHANGED <<apiCache, nowMs>>
  /\ UNCHANGED <<players, fdToday, fdDetails, notCache>>

timerDue == nextFire # Null /\ Val(nextFire) <= nowMs

\* the interval timer is due: pollForUpdates starts with
\* updateMatchData(true) (1513-1515)
TimerFires_Cache ==
  /\ call = Null
  /\ timerDue
  /\ nowMs < MaxNowMs
  /\ call' = Some(newCall(TRUE, nowMs))
  /\ nextFire' = Some(nowMs + currentInterval)
  /\ UNCHANGED <<apiCache, nowMs, currentInterval>>
  /\ UNCHANGED <<todayVars, notCache>>

\* time passes while the cycle awaits a response or the timer; synchronous
\* code takes no time, and a request is answered before the timer is due
\* again
TimePasses ==
  /\ nowMs + StepMs <= MaxNowMs
  /\ ~timerDue
  /\ (IF call = Null THEN TRUE
      ELSE Val(call).pc \in {"awaitMatches", "awaitDetails"})
  /\ nowMs' = nowMs + StepMs
  /\ UNCHANGED <<apiCache, currentInterval, nextFire, call>>
  /\ UNCHANGED <<todayVars, notCache>>

\* upstream: the fixture kicks off or ends
FdStatusChanges ==
  /\ \E st \in {"TIMED", "IN_PLAY", "FINISHED"} :
       /\ fdToday # <<fixturePhiTor(st, Null)>>
       /\ fdToday' = <<fixturePhiTor(st, Null)>>
  /\ UNCHANGED <<players, matchData, fdDetails>>
  /\ UNCHANGED <<cacheVars, notCache>>

\* upstream: the first goal is recorded in the detail
FdDetailsChange ==
  /\ fdDetails = EmptyDetails
  /\ fdDetails' = DetailsAfterGoal
  /\ UNCHANGED <<players, matchData, fdToday>>
  /\ UNCHANGED <<cacheVars, notCache>>

NextCache ==
  \/ FetchMatches
  \/ MatchesResponse
  \/ GetMatchDetails
  \/ DetailsResponse
  \/ StoreMatchData
  \/ TimerFires_Cache
  \/ TimePasses
  \/ FdStatusChanges
  \/ FdDetailsChange

SpecCache == InitCache /\ [][NextCache]_vars

\* a tick holds the fixtures fetchMatches returned to it
tickHoldsMatches ==
  /\ call # Null /\ Val(call).forLiveData
  /\ Val(call).pc \in {"getMatchDetails", "awaitDetails", "store"}
  /\ Val(call).matchesAt # Null

\* the fixtures a tick holds are a response upstream gave during that tick
statusIsFresh ==
  tickHoldsMatches => Val(Val(call).matchesAt) >= Val(call).calledAt

\* a detail taken from the cache is younger than the adapter's TTL
detailsWithinTTL ==
  (call # Null /\ Val(call).pc = "store" /\ Val(call).detailsAt # Null)
    => nowMs - Val(Val(call).detailsAt) < cacheExpiry

\* C10: every poll tick answers the fixture-status query with a fresh
\* upstream response: the fixtures whose status a tick stores are never a
\* response cached by an earlier cycle, while the detail query still
\* respects the adapter's TTL.
C10_TickStatusNeverFromCache == statusIsFresh /\ detailsWithinTTL

\* a tick took its fixtures from the entry an earlier cycle cached
tickServedFromCache ==
  tickHoldsMatches /\ Val(Val(call).matchesAt) < Val(call).calledAt

\* the status a tick is about to store is not the status upstream holds
tickStoresStaleStatus ==
  /\ tickServedFromCache /\ Val(call).pc = "store"
  /\ Val(call).matches # fdToday

\* footballData.js 17: the TTL of a call
ttlOf(forLiveData) == IF forLiveData THEN liveCacheExpiry ELSE cacheExpiry

\* the entry of the endpoint is younger than the TTL
youngerThan(endpoint, ttl) ==
  apiCache[endpoint] # Null /\ nowMs - Val(apiCache[endpoint]).timestamp < ttl

\* what fetchFromApi does when the call standing at pc from asks for the
\* endpoint with the TTL ttl (asked: the adapter is called at all): it
\* returns the entry (returned is the data and returnedAt its timestamp in
\* the frame after the step) exactly when the entry is younger than the TTL
\* and otherwise awaits the request (pc awaiting); the answered request is
\* stored with the time of the answer and returned; the failed request
\* leaves the cache alone and returns nothing
fetchFromApiKeepsTTL(endpoint, ttl, asked, from, awaiting, returned, returnedAt) ==
  /\ (Val(call).pc = from /\ Val(call').pc # from /\ asked)
       => IF youngerThan(endpoint, ttl)
          THEN /\ Val(call').pc # awaiting
               /\ returned = Val(apiCache[endpoint]).data
               /\ returnedAt = Some(Val(apiCache[endpoint]).timestamp)
               /\ apiCache' = apiCache
          ELSE /\ Val(call').pc = awaiting
               /\ apiCache' = apiCache
  /\ (Val(call).pc = awaiting /\ Val(call').pc # awaiting)
       => \/ /\ returnedAt = Some(nowMs)
             /\ apiCache'[endpoint] = Some([data |-> returned, timestamp |-> nowMs])
          \/ /\ returnedAt = Null
             /\ apiCache' = apiCache

\* C38: fetchFromApi never returns a response older than the TTL of the call
\* (60 s when forLiveData is true, 5 min otherwise): a cached entry is
\* returned only if its age is below that TTL, otherwise the request is made
\* and its response stored; when the request fails the cache entry is
\* unchanged and the stale entry is not returned.
C38_NoResponseOlderThanTTL ==
  [][ (call # Null /\ call' # Null) =>
        /\ fetchFromApiKeepsTTL(MatchesEndpoint, ttlOf(Val(call).forLiveData),
                                TRUE, "fetchMatches", "awaitMatches",
                                Val(call').matches, Val(call').matchesAt)
        /\ fetchFromApiKeepsTTL(DetailsEndpoint, ttlOf(FALSE),
                                wantsDetails(Val(call).matches, players),
                                "getMatchDetails", "awaitDetails",
                                IF Val(call').details = Null THEN Null
                                ELSE Val(Val(call').details),
                                Val(call').detailsAt) ]_vars

\* a tick stands before the store with the fixtures of an entry an earlier
\* cycle cached and a detail that was requested and answered just now, its
\* entry having expired
C38_CachedFixturesFreshDetail ==
  /\ call # Null /\ Val(call).forLiveData /\ Val(call).pc = "store"
  /\ Val(call).matchesAt # Null
  /\ Val(Val(call).matchesAt) < Val(call).calledAt
  /\ Val(call).detailsAt = Some(nowMs)
  /\ nowMs >= cacheExpiry

\* SpecCache with the fairness the event loop gives: a continuation of the
\* tracker that can run does run, and a due timer fires.  Nothing makes a
\* request settle: fetchFromApi awaits fetch(url, { headers }) (footballData.js
\* 28) without a signal or a timer of its own, so MatchesResponse and
\* DetailsResponse carry no fairness
SpecCacheFair ==
  /\ SpecCache
  /\ WF_vars(FetchMatches) /\ WF_vars(GetMatchDetails)
  /\ WF_vars(StoreMatchData) /\ WF_vars(TimerFires_Cache)

\* C13: no adapter call blocks the scheduler indefinitely: every started
\* cycle, the initial run included, eventually completes and the timer is
\* eventually armed, even if an upstream never responds.
C13_EveryCycleCompletes ==
  /\ (call # Null) ~> (call = Null)
  /\ <>(nextFire # Null)

(***************************************************************************)
(* SpecPipe: the today pipeline, updateMatchData followed by               *)
(* updateMatchDataFromFotMob (1495-1498, 1515-1522), run again and again   *)
(* over feeds that change between the runs                                 *)
(***************************************************************************)
\* the most runs counted over unchanged responses
MaxRuns == 2

\* the statuses upstream gives the fixture PhiTor here
PipeStatuses == {"TIMED", "IN_PLAY", "FINISHED", "POSTPONED"}

\* the fixture Norwich City v West Ham as Football-Data.org lists it
fixtureNorWhu(status) ==
  [id |-> 102, status |-> status, homeTeam |-> NorwichCity,
   awayTeam |-> WestHam, minute |-> Null]

\* the fixture lists of today: none, PhiTor alone, PhiTor and then NorWhu
PipeFixtureLists ==
  {<< >>}
    \cup { <<fixturePhiTor(st, Null)>> : st \in PipeStatuses }
    \cup { <<fixturePhiTor(st, Null), fixtureNorWhu("TIMED")>> : st \in PipeStatuses }

\* a detail whose goals field is an object, not an array
MalformedDetails == [EmptyDetails EXCEPT !.goalsIterable = FALSE]

PipeDetails == {EmptyDetails, DetailsAfterGoal, MalformedDetails}

\* getTeamData("Philadelphia Union") answering with the overview of the club
\* FotMob has under the id 8586 of TEAM_IDS, without details.name and
\* details.shortName: Toronto FC, at home to Borussia Dortmund today
fotmobTorBvb ==
  [id |-> 203, today |-> TRUE, date |-> 100, finished |-> FALSE,
   started |-> FALSE, homeName |-> TorontoFC, homeId |-> 8586,
   awayName |-> BorussiaDortmund, awayId |-> 9789, liveTime |-> Null]

teamDataNameless ==
  [name |-> Null, id |-> Null, lastLineupStats |-> FALSE,
   nextMatch |-> Some(fotmobTorBvb), lastMatch |-> Null]

\* what getTeamData answers per roster team
PipeTeamData ==
  { [t \in RosterTeams |->
       IF t = NorwichCity THEN nor ELSE phi] :
      nor \in {Null} \cup { Some(teamDataNorwich(ph)) : ph \in FotMobPhases },
      phi \in {Null, Some(teamDataNameless)} }

\* getPlayerStatsFromMatch for Josh Sargent in the fixture of FotMob
statsSargent ==
  [id \in PlayerIds |->
     IF id = 3
     THEN Some([participated |-> Some(TRUE), minutesPlayed |-> Some(30),
                started |-> Some(TRUE), onBench |-> FALSE, rating |-> Some(7),
                events |-> <<[type |-> "goal", minute |-> 20]>>,
                liveMinute |-> 30])
     ELSE Null]

\* per run: the detail request answers or fails, the statistics page of
\* FotMob answers or is blocked
PipeAnswers == [detailOk : BOOLEAN, statsOk : BOOLEAN]

\* this.matchData after updateMatchData and then updateMatchDataFromFotMob
todayPipeline(md, roster, matches, details, teamDataOf, stats) ==
  updateMatchDataFromFotMob(updateMatchData(md, roster, matches, details),
                            roster, teamDataOf, stats, noStats)

InitPipe ==
  /\ TeamIdle /\ MinIdle /\ SchedIdle /\ LastIdle /\ CacheIdle /\ CycleIdle
  /\ players = RosterAtStart
  /\ matchData = [id \in PlayerIds |-> Null]
  /\ fdToday \in PipeFixtureLists
  /\ fdDetails = EmptyDetails
  /\ fmTeam \in PipeTeamData
  /\ responses = Null

\* one run of the pipeline; a run over the responses of the run before is
\* counted
RunTodayPipeline ==
  /\ \E a \in PipeAnswers :
       LET again == responses # Null /\ Val(responses).answers = a
       IN /\ again => Val(responses).runs < MaxRuns
          /\ matchData' =
               todayPipeline(matchData, players, fdToday,
                             IF a.detailOk THEN Some(fdDetails) ELSE Null,
                             fmTeam, IF a.statsOk THEN statsSargent ELSE noStats)
          /\ responses' =
               Some([answers |-> a,
                     runs |-> IF again THEN Val(responses).runs + 1 ELSE 1])
  /\ UNCHANGED <<players, fdToday, fdDetails, fmVars>>
  /\ UNCHANGED notPipe

\* Football-Data.org: the fixture list of today changes
FdListChanges ==
  /\ \E l \in PipeFixtureLists : fdToday # l /\ fdToday' = l
  /\ responses' = Null
  /\ UNCHANGED <<players, matchData, fdDetails, fmVars>>
  /\ UNCHANGED notPipe

\* Football-Data.org: the detail of the fixture PhiTor changes
FdDetailChanges ==
  /\ \E d \in PipeDetails : fdDetails # d /\ fdDetails' = d
  /\ responses' = Null
  /\ UNCHANGED <<players, matchData, fdToday, fmVars>>
  /\ UNCHANGED notPipe

\* FotMob: a team overview changes
FmOverviewChanges ==
  /\ \E f \in PipeTeamData : fmTeam # f /\ fmTeam' = f
  /\ responses' = Null
  /\ UNCHANGED todayVars
  /\ UNCHANGED notPipe

NextPipe ==
  RunTodayPipeline \/ FdListChanges \/ FdDetailChanges \/ FmOverviewChanges

SpecPipe == InitPipe /\ [][NextPipe]_vars

\* a run of the pipeline has just completed
pipelineRan == responses' # Null /\ responses' # responses

\* the detail the run got: Null when the request failed
detailsOfRun(r) == IF Val(r).answers.detailOk THEN Some(fdDetails) ELSE Null

\* player id belongs to a team of the fixture
playsIn(id, fixture) ==
  isHomeOf(fixture.homeTeam, fixture.awayTeam, players[id].team) # Null

\* C12: a malformed or failing response while one fixture is processed does
\* not keep the records of the other teams and players from being updated
\* in the same pass: after a run, every player of a team of a listed fixture
\* whose own detail did not make the pass throw holds the record of that
\* fixture.
C12_FailureIsolatedPerEntity ==
  [][ pipelineRan =>
        \A id \in PlayerIds : \A i \in 1..Len(fdToday) :
          (playsIn(id, fdToday[i])
             /\ ~parsePlayerEventsThrows(players, fdToday[i], detailsOfRun(responses')))
            => /\ matchData'[id] # Null
               /\ Val(matchData'[id]).fixtureId = fdToday[i].id
               /\ Val(matchData'[id]).status = getMatchStatus(fdToday[i]) ]_vars

\* C16: the status is recomputed, not advanced: when a pass of
\* updateMatchData stores records, every player of a team of a listed
\* fixture holds the normalization of the status the feed reports now,
\* whatever status was stored before.
C16_StatusRecomputed ==
  [][ matchData' # matchData =>
        \A id \in PlayerIds : \A i \in 1..Len(fdToday) :
          playsIn(id, fdToday[i])
            => /\ matchData'[id] # Null
               /\ Val(matchData'[id]).status = getMatchStatus(fdToday[i]) ]_vars

\* a fixture that upstream has goals, substitutions or bookings for is
\* stored as postponed
C16_PostponedAfterPlay ==
  /\ fdToday = <<fixturePhiTor("POSTPONED", Null)>>
  /\ entryCount(fdDetails) > 0
  /\ matchData # Null /\ matchData[1] # Null
  /\ Val(matchData[1]).status = "postponed"

\* C14: running the pipeline again over unchanged responses leaves matchData
\* as the run before left it; no event is added or duplicated.
C14_PipelineIdempotent ==
  [][ (responses # Null /\ responses' # Null
         /\ Val(responses').runs > Val(responses).runs)
        => matchData' = matchData ]_vars

\* a second run over the same responses has happened, with a record of each
\* feed stored, one of them with an event
C14_SecondRunHappened ==
  /\ responses # Null /\ Val(responses).runs = 2
  /\ matchData[1] # Null /\ Val(matchData[1]).source = Null
  /\ matchData[3] # Null /\ Val(matchData[3]).source = Some("fotmob")
  /\ Len(Val(matchData[3]).events) > 0

\* the identity FotMob reports for the overview of a team names the team:
\* details.name, or a side of the match, passes teamMatches
fotmobNamesTeam(teamData, teamName) ==
  \/ teamData.name # Null /\ teamMatchesOf(Val(teamData.name), teamName)
  \/ /\ matchToUse(teamData) # Null
     /\ \/ teamMatchesOf(Val(matchToUse(teamData)).homeName, teamName)
        \/ teamMatchesOf(Val(matchToUse(teamData)).awayName, teamName)

\* C19: updateMatchDataFromFotMob writes a TodayMatch from the team overview
\* only if the match is of today and the team identity FotMob reports passes
\* teamMatches against the roster team name.
C19_FotMobRecordOnlyForMatchingTeam ==
  [][ \A id \in PlayerIds :
        (matchData'[id] # matchData[id] /\ matchData'[id] # Null
           /\ Val(matchData'[id]).source = Some("fotmob"))
          => /\ fmTeam[players[id].team] # Null
             /\ matchToUse(Val(fmTeam[players[id].team])) # Null
             /\ Val(matchToUse(Val(fmTeam[players[id].team]))).today
             /\ fotmobNamesTeam(Val(fmTeam[players[id].team]), players[id].team) ]_vars

\* this.matchData between the two stages of the run: after updateMatchData,
\* before updateMatchDataFromFotMob
afterPrimaryFeed ==
  updateMatchData(matchData, players, fdToday, detailsOfRun(responses'))

notTiers == <<teamVars, minVars, schedVars, cacheVars, cycleVars>>

\* getPlayerStatsFromTeamLineup with a snapshot for every roster player
lineupStatsOfAll ==
  [id \in PlayerIds |->
     IF id = 3
     THEN Some([participated |-> Some(TRUE), started |-> Some(TRUE),
                onBench |-> FALSE, rating |-> Some(6),
                goals |-> 0, assists |-> 0, events |-> << >>])
     ELSE lineupStatsIn("lineup")[id]]

\* per pass: the history request, the team requests and the fixture request
\* answer or fail
TierAnswers == [recentOk : BOOLEAN, teamOk : BOOLEAN, listOk : BOOLEAN]

\* what the requests of a pass return under the answers a
recentUnder(a) == IF a.recentOk THEN fmRecent ELSE [id \in PlayerIds |-> Null]
teamLastUnder(a) ==
  [t \in AllTeams |-> IF a.teamOk THEN Some(teamLastMatchOf(t)) ELSE Null]
teamDataUnder(a) == IF a.teamOk THEN fmTeam ELSE [t \in AllTeams |-> Null]
matchesUnder(a) == IF a.listOk THEN fdRecent ELSE << >>
detailsOfRecent ==
  [id \in {101, 103, 104} |-> IF id = 101 THEN Some(fdDetails) ELSE Null]

InitTiers ==
  /\ TeamIdle /\ MinIdle /\ SchedIdle /\ CacheIdle /\ CycleIdle
  /\ players = RosterAtStart
  /\ matchData = Null /\ fdToday = Null
  /\ fdDetails \in DetailCatalogue
  /\ fmTeam = [t \in AllTeams |-> Some(teamDataLast(t))]
  /\ fmRecent \in { [id \in PlayerIds |-> IF id = 3 THEN Some(h) ELSE Null] :
                     h \in SargentHistories }
  /\ now = 100
  /\ fdRecent = RecentFixtures
  /\ lastGameData = [id \in PlayerIds |-> Null]
  /\ fotmobData = [id \in PlayerIds |-> Null]
  /\ fotmobCacheFile = [id \in PlayerIds |-> Null]
  /\ manualStats \in ManualCatalogue
  /\ responses = Null

\* one pass of updateFotMobData, every lookup answering
TiersFotMobPass ==
  /\ fotmobData' = updateFotMobData(fotmobData, players, now, fmRecent,
                                    lastStatsIn("detail"), lineupStatsOfAll, fmTeam)
  /\ fotmobData' # fotmobData
  /\ fotmobCacheFile' = fotmobData'
  /\ responses' = Null
  /\ UNCHANGED <<fmRecent, now, fdRecent, lastGameData, manualStats>>
  /\ UNCHANGED <<todayVars, fmVars, notTiers>>

\* one pass of updateLastGameData; passes are counted up to MaxRuns
LastGamePass ==
  /\ \E a \in TierAnswers :
       /\ responses # Null => Val(responses).runs < MaxRuns
       /\ lastGameData' =
            updateLastGameData(lastGameData, players, fotmobData, manualStats, now,
                               recentUnder(a), teamLastUnder(a), teamDataUnder(a),
                               lineupStatsOfAll, matchesUnder(a), detailsOfRecent)
       /\ responses' =
            Some([answers |-> a,
                  runs |-> IF responses = Null THEN 1 ELSE Val(responses).runs + 1])
  /\ UNCHANGED <<fmRecent, now, fdRecent, fotmobData, fotmobCacheFile, manualStats>>
  /\ UNCHANGED <<todayVars, fmVars, notTiers>>

\* the process is started again: this.lastGameData is empty
TiersRestart ==
  /\ lastGameData # [id \in PlayerIds |-> Null]
  /\ lastGameData' = [id \in PlayerIds |-> Null]
  /\ fotmobData' = loadFotMobCache(fotmobCacheFile, now)
  /\ responses' = Null
  /\ UNCHANGED <<fmRecent, now, fdRecent, fotmobCacheFile, manualStats>>
  /\ UNCHANGED <<todayVars, fmVars, notTiers>>

NextTiers == TiersFotMobPass \/ LastGamePass \/ TiersRestart

SpecTiers == InitTiers /\ [][NextTiers]_vars

\* the sources of the third tier
FixtureTierSources == {"api", "fotmob", "manual"}

\* C22: within one pass the tiers are tried in the order per-player history,
\* lineup snapshot, fixture feed; a record a tier has written is not
\* overwritten by a later tier of the pass, and the source of every record
\* written names the tier that supplied it.
C22_FirstTierWins ==
  [][ (responses' # Null /\ responses' # responses) =>
        LET a == Val(responses').answers
            t1 == lastGameFromPlayerApi(lastGameData, players, recentUnder(a),
                                        teamLastUnder(a))
            t2 == lastGameFromTeamLineup(t1, players, teamDataUnder(a),
                                         lineupStatsOfAll)
        IN \A id \in PlayerIds :
             /\ t1[id] # lastGameData[id] =>
                  /\ lastGameData'[id] = t1[id]
                  /\ Val(lastGameData'[id]).source = "fotmob_player_api"
             /\ (t1[id] = lastGameData[id] /\ t2[id] # t1[id]) =>
                  /\ lastGameData'[id] = t2[id]
                  /\ Val(lastGameData'[id]).source = "fotmob_team_lineup"
             /\ (t2[id] = lastGameData[id] /\ lastGameData'[id] # lastGameData[id]) =>
                  /\ lastGameData[id] = Null
                  /\ Val(lastGameData'[id]).source \in FixtureTierSources ]_vars

\* a pass in which every request answered has written Josh Sargent's record
\* from his history, with a lineup snapshot and a finished fixture of his
\* team at hand
C22_HistoryWonOverLowerTiers ==
  /\ responses # Null
  /\ Val(responses).answers = [recentOk |-> TRUE, teamOk |-> TRUE, listOk |-> TRUE]
  /\ lastGameData[3] # Null
  /\ Val(lastGameData[3]).source = "fotmob_player_api"

\* what the per-player history lookup yields for the player under the
\* answers a: Null, or a result whose date may be Null
historyLookup(id, a) ==
  getPlayerRecentMatchFromFotMob(players[id], recentUnder(a)[id],
                                 teamLastUnder(a)[players[id].team])

\* a record of a lower tier is replaced by the pass when the history lookup
\* yields a dated match
lowerTierReplaced(a) ==
  \A id \in PlayerIds :
    (/\ lastGameData[id] # Null
     /\ Val(lastGameData[id]).source # "fotmob_player_api"
     /\ historyLookup(id, a) # Null
     /\ Val(historyLookup(id, a)).date # Null)
      => /\ lastGameData'[id] # Null
         /\ Val(lastGameData'[id]).source = "fotmob_player_api"

\* a record of the history tier is not replaced by one of a lower tier
historyTierKept ==
  \A id \in PlayerIds :
    (lastGameData[id] # Null
       /\ Val(lastGameData[id]).source = "fotmob_player_api")
      => /\ lastGameData'[id] # Null
         /\ Val(lastGameData'[id]).source = "fotmob_player_api"

\* C33: when updateLastGameData runs again, a LastGame of a lower tier
\* (source other than fotmob_player_api) is replaced as soon as the
\* per-player history lookup yields a dated match for the player, and a
\* LastGame of the history tier is never replaced by one of a lower tier.
C33_HigherTierOverwritesLower ==
  [][ (responses' # Null /\ responses' # responses) =>
        /\ lowerTierReplaced(Val(responses').answers)
        /\ historyTierKept ]_vars

(***************************************************************************)
(* SpecDetail: the requests of getMatchDetails within one pass of          *)
(* updateMatchData and of updateLastGameData.  matchDetailsCache is a Map  *)
(* of the pass; an answer is put into it, a failed request is not.         *)
(* responses holds the stage of the last pass and, per fixture of its      *)
(* list, the requests the pass made for it.  The ids of the fixtures of a  *)
(* list are distinct.                                                      *)
(***************************************************************************)
notDetail == <<teamVars, minVars, schedVars, cacheVars, cycleVars>>

\* 390-413, 920-942: the requests for one fixture over the roster teams in
\* the order of playersByTeam; cached is matchDetailsCache.has(match.id),
\* detailOk whether a request answers
RECURSIVE detailRequestsForTeams(_, _, _, _)
detailRequestsForTeams(teams, match, detailOk, cached) ==
  IF teams = << >> THEN 0
  ELSE IF isHomeOf(match.homeTeam, match.awayTeam, Head(teams)) = Null
  THEN detailRequestsForTeams(Tail(teams), match, detailOk, cached)
  ELSE IF cached
  THEN detailRequestsForTeams(Tail(teams), match, detailOk, cached)
  ELSE 1 + detailRequestsForTeams(Tail(teams), match, detailOk, detailOk)

\* 385-508: the requests of one pass of updateMatchData, per fixture of the
\* list; an exception ends the pass after the request of the fixture
RECURSIVE todayDetailRequests(_, _, _)
todayDetailRequests(roster, matches, details) ==
  IF matches = << >> THEN << >>
  ELSE LET match == Head(matches)
       IN IF parsePlayerEventsThrows(roster, match, details)
          THEN <<[id |-> match.id, requests |-> 1]>>
               \o [i \in 1..(Len(matches) - 1) |->
                     [id |-> matches[i + 1].id, requests |-> 0]]
          ELSE <<[id |-> match.id,
                  requests |->
                    IF getMatchStatus(match) \in {"live", "finished"}
                    THEN detailRequestsForTeams(getPlayersByTeam(roster), match,
                                                details # Null, FALSE)
                    ELSE 0]>>
               \o todayDetailRequests(roster, Tail(matches), details)

\* 905-942: the requests of one pass of updateLastGameData, per fixture of
\* the list
lastDetailRequests(roster, clock, matches, detailsOf) ==
  [i \in 1..Len(matches) |->
     [id |-> matches[i].id,
      requests |->
        IF getMatchStatus(matches[i]) = "finished" /\ isRecent(matches[i], clock)
        THEN detailRequestsForTeams(getPlayersByTeam(roster), matches[i],
                                    detailsOf[matches[i].id] # Null, FALSE)
        ELSE 0]]

InitDetail ==
  /\ TeamIdle /\ MinIdle /\ SchedIdle /\ CacheIdle /\ CycleIdle
  /\ players \in {RosterAtStart, RosterAfterTransfer}
  /\ matchData = [id \in PlayerIds |-> Null]
  /\ fdToday \in PipeFixtureLists
  /\ fdDetails \in {EmptyDetails, DetailsAfterGoal}
  /\ fmTeam = [t \in AllTeams |-> Some(teamDataLast(t))]
  /\ fmRecent \in { [id \in PlayerIds |-> IF id = 3 THEN Some(h) ELSE Null] :
                     h \in SargentHistories }
  /\ now = 100
  /\ fdRecent = RecentFixtures
  /\ lastGameData = [id \in PlayerIds |-> Null]
  /\ fotmobData = [id \in PlayerIds |-> Null]
  /\ fotmobCacheFile = [id \in PlayerIds |-> Null]
  /\ manualStats = [id \in PlayerIds |-> Null]
  /\ responses = Null

\* one pass of updateMatchData: the fixture request and the detail requests
\* answer or fail
DetailTodayPass ==
  /\ \E listOk \in BOOLEAN, detailOk \in BOOLEAN :
       LET matches == IF listOk THEN fdToday ELSE << >>
           details == IF detailOk THEN Some(fdDetails) ELSE Null
       IN /\ matchData' = updateMatchData(matchData, players, matches, details)
          /\ responses' =
               Some([stage |-> "updateMatchData",
                     requests |-> todayDetailRequests(players, matches, details)])
  /\ UNCHANGED <<players, fdToday, fdDetails, fmVars, lastVars>>
  /\ UNCHANGED notDetail

\* one pass of updateLastGameData: the requests of every tier answer or fail
DetailLastPass ==
  /\ \E a \in TierAnswers, detailOk \in BOOLEAN :
       LET detailsOf ==
             [id \in {101, 103, 104} |->
                IF detailOk /\ id = 101 THEN Some(fdDetails) ELSE Null]
       IN /\ lastGameData' =
               updateLastGameData(lastGameData, players, fotmobData, manualStats,
                                  now, recentUnder(a), teamLastUnder(a),
                                  teamDataUnder(a), lineupStatsOfAll,
                                  matchesUnder(a), detailsOf)
          /\ responses' =
               Some([stage |-> "updateLastGameData",
                     requests |->
                       lastDetailRequests(players, now,
                                          sortByDateDesc(matchesUnder(a)),
                                          detailsOf)])
  /\ UNCHANGED <<fmRecent, now, fdRecent, fotmobData, fotmobCacheFile, manualStats>>
  /\ UNCHANGED <<todayVars, fmVars, notDetail>>

\* Football-Data.org: the fixture list of today changes
DetailFixturesChange ==
  /\ \E l \in PipeFixtureLists : fdToday # l /\ fdToday' = l
  /\ responses' = Null
  /\ UNCHANGED <<players, matchData, fdDetails, fmVars, lastVars>>
  /\ UNCHANGED notDetail

NextDetail == DetailTodayPass \/ DetailLastPass \/ DetailFixturesChange

SpecDetail == InitDetail /\ [][NextDetail]_vars

\* C34: within one pass of updateMatchData, and of updateLastGameData,
\* getMatchDetails is requested at most once per fixture id, however many
\* roster teams and players are matched to the fixture.
C34_OneDetailRequestPerFixture ==
  responses # Null =>
    \A i \in 1..Len(Val(responses).requests) :
      Val(responses).requests[i].requests <= 1

(***************************************************************************)
(* SpecCycle: the cycles of startPolling (1484-1545) over the stages: the  *)
(* initial run, then the ticks of pollForUpdates; updateNextGameData and   *)
(* getAllMatchData.  Time is in hours, as in SpecLast.                     *)
(***************************************************************************)
MaxCycles == 3

\* 351-359
needsNextGameRefresh(ng, roster, teamName, clock) ==
  \E id \in PlayerIds :
    /\ roster[id].team = teamName
    /\ IF ng[id] = Null THEN TRUE ELSE Val(ng[id]).kickoff <= clock

\* 1368-1385: the record written from FotMob's nextMatch
nextGameFromFotMob(nextMatch, teamName) ==
  [fixtureId |-> Some(nextMatch.id), kickoff |-> nextMatch.date,
   homeTeam |-> nextMatch.homeName, awayTeam |-> nextMatch.awayName,
   isHome |-> /\ TEAM_IDS(teamName) # Null
              /\ nextMatch.homeId = Val(TEAM_IDS(teamName))]

\* 1362-1390: the loop over the teams needing a refresh; a getTeamData that
\* throws (teamDataOf[teamName] = Null) is caught per team
RECURSIVE nextGamesFromFotMobOver(_, _, _, _, _)
nextGamesFromFotMobOver(ng, roster, teams, teamDataOf, clock) ==
  IF teams = << >> THEN ng
  ELSE LET teamName == Head(teams)
           teamData == teamDataOf[teamName]
           nextMatch == IF teamData = Null THEN Null ELSE Val(teamData).nextMatch
           stored ==
             IF nextMatch = Null THEN ng
             ELSE IF Val(nextMatch).date > clock
             THEN [id \in PlayerIds |->
                     IF roster[id].team = teamName
                     THEN Some(nextGameFromFotMob(Val(nextMatch), teamName))
                     ELSE ng[id]]
             ELSE ng
       IN nextGamesFromFotMobOver(stored, roster, Tail(teams), teamDataOf, clock)

\* matches.sort((a, b) => new Date(a.utcDate) - new Date(b.utcDate)):
\* earliest first, equal dates in their order
RECURSIVE sortByDateAsc(_)
sortByDateAsc(matches) ==
  IF matches = << >> THEN << >>
  ELSE LET earliest ==
             CHOOSE i \in 1..Len(matches) :
               /\ \A j \in 1..Len(matches) : matches[i].utcDate <= matches[j].utcDate
               /\ \A j \in 1..(i - 1) : matches[j].utcDate > matches[i].utcDate
       IN <<matches[earliest]>>
          \o sortByDateAsc(SubSeq(matches, 1, earliest - 1)
                           \o SubSeq(matches, earliest + 1, Len(matches)))

\* 1404-1424: the record written from a fixture of Football-Data.org
nextGameFromFixture(match, teamName) ==
  [fixtureId |-> Some(match.id), kickoff |-> match.utcDate,
   homeTeam |-> match.homeTeam, awayTeam |-> match.awayTeam,
   isHome |-> teamMatchesOf(match.homeTeam, teamName)]

\* 1401-1427: per team still without a record, the first fixture of the
\* sorted list one of whose sides matches the team
RECURSIVE nextGamesFromFixturesOver(_, _, _, _)
nextGamesFromFixturesOver(ng, roster, teams, sorted) ==
  IF teams = << >> THEN ng
  ELSE LET teamName == Head(teams)
           mine == SelectSeq(sorted, LAMBDA match :
                     \/ teamMatchesOf(match.homeTeam, teamName)
                     \/ teamMatchesOf(match.awayTeam, teamName))
           stored ==
             IF mine = << >> THEN ng
             ELSE [id \in PlayerIds |->
                     IF roster[id].team = teamName
                     THEN Some(nextGameFromFixture(Head(mine), teamName))
                     ELSE ng[id]]
       IN nextGamesFromFixturesOver(stored, roster, Tail(teams), sorted)

\* 1349-1352
teamsNeedingRefresh(ng, roster, clock) ==
  SelectSeq(getPlayersByTeam(roster),
            LAMBDA t : needsNextGameRefresh(ng, roster, t, clock))

\* this.nextGameData after updateNextGameData; matches is what fetchMatches
\* returned for the next two weeks
updateNextGameData(ng, roster, clock, teamDataOf, matches) ==
  LET teams == teamsNeedingRefresh(ng, roster, clock)
      fromFotMob == nextGamesFromFotMobOver(ng, roster, teams, teamDataOf, clock)
      teamsStillNeeding ==
        SelectSeq(teams, LAMBDA t :
          \E id \in PlayerIds : roster[id].team = t /\ fromFotMob[id] = Null)
  IN nextGamesFromFixturesOver(fromFotMob, roster, teamsStillNeeding,
                               sortByDateAsc(matches))

\* 1450-1472: the entry of one player, Null for no entry
exposedRecord(todayMatch, lastGame, nextGame) ==
  IF todayMatch # Null
  THEN Some([status |-> Val(todayMatch).status, todayMatch |-> todayMatch,
             lastGame |-> lastGame, nextGame |-> nextGame])
  ELSE IF lastGame # Null \/ nextGame # Null
  THEN Some([status |-> "no_match_today", todayMatch |-> Null,
             lastGame |-> lastGame, nextGame |-> nextGame])
  ELSE Null

\* getAllMatchData as it would be without the branch of 1462-1468
getAllMatchDataTodayOnly(md, lg, ng) ==
  [id \in PlayerIds |->
     IF md[id] # Null THEN exposedRecord(md[id], lg[id], ng[id]) ELSE Null]

getAllMatchData(md, lg, ng) ==
  [id \in PlayerIds |-> exposedRecord(md[id], lg[id], ng[id])]

\* a match of FotMob's team endpoint that is to come
fotmobUpcoming(id, date, homeName, homeId, awayName, awayId) ==
  [fotmobPlayed(id, date, homeName, homeId, awayName, awayId)
     EXCEPT !.finished = FALSE, !.started = FALSE]

\* overview.nextMatch of Norwich City: none, at home to West Ham, away at
\* Toronto FC
NorwichNextMatches ==
  { Null,
    Some(fotmobUpcoming(206, 130, NorwichCity, 9850, WestHam, 8654)),
    Some(fotmobUpcoming(207, 140, TorontoFC, 56453, NorwichCity, 9850)) }

\* getTeamData per team: Philadelphia Union and Toronto FC without a
\* nextMatch
teamDataCycle(nextOfNorwich) ==
  [t \in AllTeams |->
     Some([teamDataLast(t) EXCEPT
             !.nextMatch = IF t = NorwichCity THEN nextOfNorwich ELSE Null])]

\* the fixtures of the next two weeks at Football-Data.org
AheadFixtureLists ==
  { << >>,
    << recentFixture(105, 150, "TIMED", PhiladelphiaUnion, TorontoFC) >>,
    << recentFixture(105, 150, "TIMED", PhiladelphiaUnion, TorontoFC),
       recentFixture(106, 120, "TIMED", TorontoFC, PhiladelphiaUnion) >> }

CycleStatuses == {"TIMED", "IN_PLAY", "FINISHED"}

\* the histories of Josh Sargent in the cycles: the first and the last of
\* SargentHistories
CycleHistories == { h \in SargentHistories : Len(h) # 2 /\ h[1].matchId # Some(205) }

InitCycle ==
  /\ TeamIdle /\ MinIdle /\ SchedIdle /\ CacheIdle /\ PipeIdle
  /\ players = RosterAtStart
  /\ matchData = [id \in PlayerIds |-> Null]
  /\ fdToday \in {<< >>, <<fixturePhiTor("TIMED", Null)>>}
  /\ fdDetails = EmptyDetails
  /\ fmTeam \in { teamDataCycle(n) : n \in NorwichNextMatches }
  /\ fmRecent \in { [id \in PlayerIds |-> IF id = 3 THEN Some(h) ELSE Null] :
                     h \in CycleHistories }
  /\ now = 100
  /\ fdRecent = RecentFixtures
  /\ lastGameData = [id \in PlayerIds |-> Null]
  /\ fotmobData = [id \in PlayerIds |-> Null]
  /\ fotmobCacheFile = [id \in PlayerIds |-> Null]
  /\ manualStats = [id \in PlayerIds |-> Null]
  /\ nextGameData = [id \in PlayerIds |-> Null]
  /\ nextGamesCacheFile = [id \in PlayerIds |-> Null]
  /\ fdAhead \in AheadFixtureLists
  /\ cycles = 0
  /\ exposed = Null

\* this.lastGameData after updateLastGameData over lg and this.fotmobData
\* fd, with every request answering what the feeds have
lastGameOfFeeds(lg, fd) ==
  updateLastGameData(lg, players, fd, manualStats, now, fmRecent,
                     [t \in AllTeams |-> Some(teamLastMatchOf(t))], fmTeam,
                     lineupStatsIn("detail"), fdRecent,
                     [id \in {101, 103, 104} |->
                        IF id = 101 THEN Some(fdDetails) ELSE Null])

\* this.nextGameData after updateNextGameData over ng, likewise
nextGameOfFeeds(ng) == updateNextGameData(ng, players, now, fmTeam, fdAhead)

\* 1494-1510: the initial run of startPolling: updateMatchData,
\* updateMatchDataFromFotMob, updateFotMobData, updateLastGameData and
\* updateNextGameData, then the timer is armed
InitialRun ==
  /\ cycles = 0
  /\ matchData' = todayPipeline(matchData, players, fdToday, Some(fdDetails),
                                fmTeam, noStats)
  /\ fotmobData' = updateFotMobData(fotmobData, players, now, fmRecent,
                                    lastStatsIn("detail"), lineupStatsIn("detail"),
                                    fmTeam)
  /\ fotmobCacheFile' =
       IF fotmobUpdatedCount(fotmobData, players, now, fmRecent,
                             lastStatsIn("detail"), lineupStatsIn("detail"),
                             fmTeam) > 0
       THEN fotmobData' ELSE fotmobCacheFile
  /\ lastGameData' = lastGameOfFeeds(lastGameData, fotmobData')
  /\ nextGameData' = nextGameOfFeeds(nextGameData)
  /\ nextGamesCacheFile' =
       IF teamsNeedingRefresh(nextGameData, players, now) = << >>
       THEN nextGamesCacheFile ELSE nextGameData'
  /\ cycles' = 1
  /\ exposed' = Null
  /\ UNCHANGED <<players, fdToday, fdDetails, fmVars, fmRecent, now, fdRecent,
                 manualStats, fdAhead>>
  /\ UNCHANGED notCycle

\* 1513-1538: a tick of pollForUpdates: updateMatchData(true) and
\* updateMatchDataFromFotMob(isLive), then the timer is armed again
PollTick ==
  /\ cycles >= 1 /\ cycles < MaxCycles
  /\ matchData' = todayPipeline(matchData, players, fdToday, Some(fdDetails),
                                fmTeam, noStats)
  /\ cycles' = cycles + 1
  /\ exposed' = Null
  /\ UNCHANGED <<players, fdToday, fdDetails, fmVars, lastVars,
                 nextGameData, nextGamesCacheFile, fdAhead>>
  /\ UNCHANGED notCycle

\* a request for the exposed records; exposed is the response until the
\* tracker or a feed moves on
GetAllMatchData ==
  /\ exposed' = Some(getAllMatchData(matchData, lastGameData, nextGameData))
  /\ UNCHANGED <<todayVars, fmVars, lastVars,
                 nextGameData, nextGamesCacheFile, fdAhead, cycles>>
  /\ UNCHANGED notCycle

\* FotMob: the history of the player changes
CycleHistoryChanges ==
  /\ \E h \in CycleHistories :
       /\ fmRecent[3] # Some(h)
       /\ fmRecent' = [fmRecent EXCEPT ![3] = Some(h)]
  /\ exposed' = Null
  /\ UNCHANGED <<now, fdRecent, lastGameData, fotmobData, fotmobCacheFile,
                 manualStats>>
  /\ UNCHANGED <<nextGameData, nextGamesCacheFile, fdAhead, cycles>>
  /\ UNCHANGED <<todayVars, fmVars, notCycle>>

\* FotMob: the next match of Norwich City changes
CycleNextMatchChanges ==
  /\ \E n \in NorwichNextMatches :
       /\ fmTeam # teamDataCycle(n)
       /\ fmTeam' = teamDataCycle(n)
  /\ exposed' = Null
  /\ UNCHANGED <<nextGameData, nextGamesCacheFile, fdAhead, cycles>>
  /\ UNCHANGED <<todayVars, lastVars, notCycle>>

\* Football-Data.org: the fixture of today moves on
CycleFixtureChanges ==
  /\ \E st \in CycleStatuses :
       /\ fdToday # <<fixturePhiTor(st, Null)>>
       /\ fdToday' = <<fixturePhiTor(st, Null)>>
  /\ exposed' = Null
  /\ UNCHANGED <<players, matchData, fdDetails>>
  /\ UNCHANGED <<nextGameData, nextGamesCacheFile, fdAhead, cycles>>
  /\ UNCHANGED <<fmVars, lastVars, notCycle>>

\* the calendar day ends: Football-Data.org lists no fixture of today
CycleDayEnds ==
  /\ fdToday # << >>
  /\ fdToday' = << >>
  /\ exposed' = Null
  /\ UNCHANGED <<players, matchData, fdDetails>>
  /\ UNCHANGED <<nextGameData, nextGamesCacheFile, fdAhead, cycles>>
  /\ UNCHANGED <<fmVars, lastVars, notCycle>>

\* Football-Data.org: the fixtures of the next two weeks change
CycleAheadChanges ==
  /\ \E l \in AheadFixtureLists : fdAhead # l /\ fdAhead' = l
  /\ exposed' = Null
  /\ UNCHANGED <<nextGameData, nextGamesCacheFile, cycles>>
  /\ UNCHANGED <<todayVars, fmVars, lastVars, notCycle>>

NextCycle ==
  \/ InitialRun \/ PollTick \/ GetAllMatchData
  \/ CycleHistoryChanges \/ CycleNextMatchChanges \/ CycleFixtureChanges
  \/ CycleDayEnds \/ CycleAheadChanges

SpecCycle == InitCycle /\ [][NextCycle]_vars

\* C11: all three derivations run in every cycle: after the initial run and
\* after every tick lastGameData is what updateLastGameData derives from the
\* feeds' current responses and nextGameData is what updateNextGameData
\* leaves over them.
C11_EveryCycleRecomputes ==
  [][ cycles' > cycles =>
        /\ lastGameData' =
             updateLastGameData([id \in PlayerIds |-> Null], players', fotmobData',
                                manualStats', now', fmRecent',
                                [t \in AllTeams |-> Some(teamLastMatchOf(t))],
                                fmTeam', lineupStatsIn("detail"), fdRecent',
                                [id \in {101, 103, 104} |->
                                   IF id = 101 THEN Some(fdDetails') ELSE Null])
        /\ nextGameData' =
             updateNextGameData(nextGameData', players', now', fmTeam', fdAhead') ]_vars

\* C17: for every roster player getAllMatchData returns the TodayMatch with
\* lastGame and nextGame attached (null when unknown) if a TodayMatch is
\* stored, else status no_match_today with lastGame and nextGame if one of
\* them is stored, else no entry.
C17_ExposedRecord ==
  [][ (exposed' # exposed /\ exposed' # Null) =>
        \A id \in PlayerIds :
          LET e == Val(exposed')[id]
          IN IF matchData[id] # Null
             THEN /\ e # Null
                  /\ Val(e).todayMatch = matchData[id]
                  /\ Val(e).status = Val(matchData[id]).status
                  /\ Val(e).lastGame = lastGameData[id]
                  /\ Val(e).nextGame = nextGameData[id]
             ELSE IF lastGameData[id] # Null \/ nextGameData[id] # Null
             THEN /\ e # Null
                  /\ Val(e).status = "no_match_today"
                  /\ Val(e).todayMatch = Null
                  /\ Val(e).lastGame = lastGameData[id]
                  /\ Val(e).nextGame = nextGameData[id]
             ELSE e = Null ]_vars

\* both kinds of entry are exposed at once: a player with a TodayMatch, a player
\* with a LastGame or NextGame only
C17_AllCasesExposed ==
  /\ exposed # Null
  /\ \E id \in PlayerIds :
       Val(exposed)[id] # Null /\ Val(Val(exposed)[id]).todayMatch # Null
  /\ \E id \in PlayerIds :
       /\ Val(exposed)[id] # Null
       /\ Val(Val(exposed)[id]).status = "no_match_today"
       /\ Val(Val(exposed)[id]).todayMatch = Null

\* no feed has a fixture of today for the team: Football-Data.org lists
\* none that matches it and the overview of FotMob has no match of today
noFixtureToday(teamName) ==
  /\ \A i \in 1..Len(fdToday) :
       isHomeOf(fdToday[i].homeTeam, fdToday[i].awayTeam, teamName) = Null
  /\ \/ fmTeam[teamName] = Null
     \/ matchToUse(Val(fmTeam[teamName])) = Null

\* C37: once the feeds of a cycle have no fixture of today for a player's
\* team, the player has no TodayMatch after the cycle and the exposed record
\* is that of no_match_today; a live record of an earlier day does not keep
\* hasLiveMatches true.
C37_NoStaleTodayMatch ==
  [][ cycles' > cycles =>
        /\ \A id \in PlayerIds :
             noFixtureToday(players[id].team)
               => /\ matchData'[id] = Null
                  /\ LET e == getAllMatchData(matchData', lastGameData',
                                              nextGameData')[id]
                     IN e # Null => Val(e).status = "no_match_today"
        /\ (\A id \in PlayerIds : noFixtureToday(players[id].team))
             => ~hasLiveMatches(matchData') ]_vars

\* C18: in every record written for a player isHome is true exactly when the
\* home team of the record is the one that matches the player's roster team
\* and false exactly when the away team is, also for a record of the
\* secondary feed whose team has no entry in TEAM_IDS.
C18_IsHomeNamesTheMatchingSide ==
  [][ \A id \in PlayerIds :
        /\ (lastGameData'[id] # lastGameData[id] /\ lastGameData'[id] # Null)
             => LET r == Val(lastGameData'[id])
                    team == players[id].team
                IN (teamMatchesOf(r.homeTeam, team) \/ teamMatchesOf(r.awayTeam, team))
                     => isHomeAgrees(r.isHome, r.homeTeam, r.awayTeam, team)
        /\ (nextGameData'[id] # nextGameData[id] /\ nextGameData'[id] # Null)
             => LET r == Val(nextGameData'[id])
                    team == players[id].team
                IN (teamMatchesOf(r.homeTeam, team) \/ teamMatchesOf(r.awayTeam, team))
                     => isHomeAgrees(r.isHome, r.homeTeam, r.awayTeam, team) ]_vars

(***************************************************************************)
(* SpecNext: passes of updateNextGameData while the hours pass, the feeds  *)
(* change and the process is started again from the cache file.            *)
(* responses holds how the requests of the last pass went.                 *)
(***************************************************************************)
NextStep == 25
MaxNextClock == 150

notNext == <<teamVars, minVars, schedVars, cacheVars>>

\* the variables the actions of SpecNext leave alone
nextHeld ==
  <<matchData, fdToday, fdDetails, fmRecent, fdRecent, lastGameData, fotmobData,
    fotmobCacheFile, manualStats, cycles, exposed>>

\* 46-61: the entries of the file whose kickoff is still to come
loadNextGamesCache(file, clock) ==
  [id \in PlayerIds |->
     IF file[id] = Null THEN Null
     ELSE IF Val(file[id]).kickoff > clock THEN file[id] ELSE Null]

\* the fixtures fetchMatches(today, twoWeeksAhead) may answer: those of
\* AheadFixtureLists, and a list that begins with a fixture of today that
\* has kicked off
NextFixtureLists ==
  AheadFixtureLists \cup
    { << recentFixture(107, 95, "IN_PLAY", PhiladelphiaUnion, TorontoFC),
         recentFixture(105, 150, "TIMED", PhiladelphiaUnion, TorontoFC) >> }

\* per pass: the getTeamData requests and the fixture request answer or fail
NextAnswers == [teamOk : BOOLEAN, listOk : BOOLEAN]

nextTeamDataUnder(a) == IF a.teamOk THEN fmTeam ELSE [t \in AllTeams |-> Null]
nextMatchesUnder(a) == IF a.listOk THEN fdAhead ELSE << >>

InitNext ==
  /\ TeamIdle /\ MinIdle /\ SchedIdle /\ CacheIdle
  /\ players = RosterAtStart
  /\ matchData = Null /\ fdToday = Null /\ fdDetails = Null
  /\ fmRecent = Null /\ fdRecent = Null /\ lastGameData = Null
  /\ fotmobData = Null /\ fotmobCacheFile = Null /\ manualStats = Null
  /\ cycles = Null /\ exposed = Null
  /\ fmTeam \in { teamDataCycle(n) : n \in NorwichNextMatches }
  /\ now = 100
  /\ nextGameData = [id \in PlayerIds |-> Null]
  /\ nextGamesCacheFile = [id \in PlayerIds |-> Null]
  /\ fdAhead \in NextFixtureLists
  /\ responses = Null

\* 1347-1440: one pass of updateNextGameData; the file is written at 1435
\* unless the pass returned at 1354-1357.  Passes are counted up to MaxRuns
UpdateNextGameData ==
  /\ \E a \in NextAnswers :
       /\ responses # Null => Val(responses).runs < MaxRuns
       /\ nextGameData' =
            updateNextGameData(nextGameData, players, now, nextTeamDataUnder(a),
                               nextMatchesUnder(a))
       /\ responses' =
            Some([answers |-> a,
                  runs |-> IF responses = Null THEN 1 ELSE Val(responses).runs + 1])
  /\ nextGamesCacheFile' =
       IF teamsNeedingRefresh(nextGameData, players, now) = << >>
       THEN nextGamesCacheFile ELSE nextGameData'
  /\ UNCHANGED <<players, fmTeam, now, fdAhead, nextHeld, notNext>>

\* 15-32: the process is started again; the constructor loads the file
NextRestart ==
  /\ responses # Null
  /\ nextGameData' = loadNextGamesCache(nextGamesCacheFile, now)
  /\ responses' = Null
  /\ UNCHANGED <<players, fmTeam, now, fdAhead, nextGamesCacheFile, nextHeld, notNext>>

\* the hours pass
NextHoursPass ==
  /\ now + NextStep <= MaxNextClock
  /\ now' = now + NextStep
  /\ UNCHANGED <<players, fmTeam, fdAhead, nextGameData, nextGamesCacheFile,
                 responses, nextHeld, notNext>>

\* FotMob: the next match of Norwich City changes
NextMatchChanges ==
  /\ \E n \in NorwichNextMatches :
       /\ fmTeam # teamDataCycle(n)
       /\ fmTeam' = teamDataCycle(n)
  /\ UNCHANGED <<players, now, fdAhead, nextGameData, nextGamesCacheFile,
                 responses, nextHeld, notNext>>

\* Football-Data.org: the fixtures of the next two weeks change
NextFixturesChange ==
  /\ \E l \in NextFixtureLists : fdAhead # l /\ fdAhead' = l
  /\ UNCHANGED <<players, fmTeam, now, nextGameData, nextGamesCacheFile,
                 responses, nextHeld, notNext>>

NextNext ==
  \/ UpdateNextGameData \/ NextRestart \/ NextHoursPass
  \/ NextMatchChanges \/ NextFixturesChange

SpecNext == InitNext /\ [][NextNext]_vars

\* a step of SpecNext is a pass of updateNextGameData
isNextGamePass == responses' # Null /\ responses' # responses

\* the roster teams the pass refreshes
refreshedTeams ==
  { t \in AllTeams :
      /\ \E id \in PlayerIds : players[id].team = t
      /\ needsNextGameRefresh(nextGameData, players, t, now) }

\* C23: no NextGame whose kickoff is at or before the current time is kept
\* as valid: the entries loaded from the file have their kickoff ahead, a
\* team is refreshed as soon as a player of it holds a NextGame whose kickoff
\* has passed, and after a pass of updateNextGameData no player of a
\* refreshed team holds a NextGame with kickoff <= now.
C23_NoPassedKickoffKept ==
  [][ /\ (responses # Null /\ responses' = Null) =>
           \A id \in PlayerIds :
             nextGameData'[id] # Null => Val(nextGameData'[id]).kickoff > now
      /\ isNextGamePass =>
           \A id \in PlayerIds :
             /\ (IF nextGameData[id] = Null THEN FALSE
                 ELSE Val(nextGameData[id]).kickoff <= now)
                  => players[id].team \in refreshedTeams
             /\ (players[id].team \in refreshedTeams /\ nextGameData'[id] # Null)
                  => Val(nextGameData'[id]).kickoff > now ]_vars

\* the fixtures of the sorted list that are to come and have the team on
\* one side
futureFixturesOf(teamName, sorted, clock) ==
  SelectSeq(sorted, LAMBDA match :
    /\ match.utcDate > clock
    /\ \/ teamMatchesOf(match.homeTeam, teamName)
       \/ teamMatchesOf(match.awayTeam, teamName))

\* the overview's next match is to come and one of its sides is the team
overviewIsAccepted(nextMatch, teamName, clock) ==
  IF nextMatch = Null THEN FALSE
  ELSE /\ Val(nextMatch).date > clock
       /\ \/ teamMatchesOf(Val(nextMatch).homeName, teamName)
          \/ teamMatchesOf(Val(nextMatch).awayName, teamName)

\* C24: for every team a pass of updateNextGameData refreshes, the NextGame
\* is that of FotMob's team overview exactly if the overview answers a
\* kickoff to come whose home or away side passes teamMatches; otherwise it
\* is the earliest fixture to come of Football-Data.org that has the team on
\* one side.
C24_NextGameSourcePreference ==
  [][ isNextGamePass =>
        LET a == Val(responses').answers
        IN \A id \in PlayerIds :
             players[id].team \in refreshedTeams =>
               LET teamName == players[id].team
                   teamData == nextTeamDataUnder(a)[teamName]
                   nextMatch == IF teamData = Null THEN Null
                                ELSE Val(teamData).nextMatch
                   future == futureFixturesOf(teamName,
                                              sortByDateAsc(nextMatchesUnder(a)), now)
               IN IF overviewIsAccepted(nextMatch, teamName, now)
                  THEN nextGameData'[id]
                         = Some(nextGameFromFotMob(Val(nextMatch), teamName))
                  ELSE IF future # << >>
                  THEN nextGameData'[id]
                         = Some(nextGameFromFixture(Head(future), teamName))
                  ELSE TRUE ]_vars

(***************************************************************************)
(* SpecOutage: passes of the five stages while the requests to the feeds   *)
(* answer or fail and the fixtures come and go.  responses holds how the   *)
(* requests of the last pass went; cycles and exposed are not used.        *)
(***************************************************************************)
notOutage == <<teamVars, minVars, schedVars, cacheVars>>

\* per pass: the fixture requests of Football-Data.org and the requests to
\* FotMob answer or fail; FotMob's statistics pages answer or are blocked
OutageAnswers == [listOk : BOOLEAN, fotmobOk : BOOLEAN, statsOk : BOOLEAN]

\* the fixture list a pass gets from fetchMatches: [] when the request fails
\* (369-372)
fetchedUnder(a, matches) == IF a.listOk THEN matches ELSE << >>

recentOutage(a) == IF a.fotmobOk THEN fmRecent ELSE [id \in PlayerIds |-> Null]
teamDataOutage(a) == IF a.fotmobOk THEN fmTeam ELSE [t \in AllTeams |-> Null]
teamLastOutage(a) ==
  [t \in AllTeams |-> IF a.fotmobOk THEN Some(teamLastMatchOf(t)) ELSE Null]
scenarioOutage(a) == IF a.fotmobOk /\ a.statsOk THEN "detail" ELSE "blocked"

\* the lists of today and of the last ten days at Football-Data.org
OutageTodayLists ==
  { << >>, <<fixturePhiTor("TIMED", Null)>>, <<fixturePhiTor("FINISHED", Null)>> }
OutageRecentLists == { << >>, RecentFixtures }

InitOutage ==
  /\ TeamIdle /\ MinIdle /\ SchedIdle /\ CacheIdle
  /\ players = RosterAtStart
  /\ matchData = [id \in PlayerIds |-> Null]
  /\ fdToday \in OutageTodayLists
  /\ fdDetails = EmptyDetails
  /\ fmTeam = teamDataCycle(Some(fotmobUpcoming(206, 130, NorwichCity, 9850, WestHam, 8654)))
  /\ fmRecent \in { [id \in PlayerIds |-> IF id = 3 THEN Some(h) ELSE Null] :
                     h \in SargentHistories }
  /\ now = 100
  /\ fdRecent = RecentFixtures
  /\ lastGameData = [id \in PlayerIds |-> Null]
  /\ fotmobData = [id \in PlayerIds |-> Null]
  /\ fotmobCacheFile = [id \in PlayerIds |-> Null]
  /\ manualStats = [id \in PlayerIds |-> Null]
  /\ nextGameData = [id \in PlayerIds |-> Null]
  /\ nextGamesCacheFile = [id \in PlayerIds |-> Null]
  /\ fdAhead \in AheadFixtureLists
  /\ cycles = Null /\ exposed = Null
  /\ responses = Null

\* the LastGame stage of a pass under the answers a, over this.fotmobData fd
lastGameOutage(a, fd) ==
  updateLastGameData(lastGameData, players, fd, manualStats, now, recentOutage(a),
                     teamLastOutage(a), teamDataOutage(a),
                     lineupStatsIn(scenarioOutage(a)), fetchedUnder(a, fdRecent),
                     [id \in {101, 103, 104} |->
                        IF id = 101 THEN Some(fdDetails) ELSE Null])

\* 1495-1504: the five stages of a pass, each returning without an
\* exception (its own try/catch); passes are counted up to MaxRuns
OutagePass ==
  /\ \E a \in OutageAnswers :
       /\ responses # Null => Val(responses).runs < MaxRuns
       /\ matchData' = todayPipeline(matchData, players, fetchedUnder(a, fdToday),
                                     Some(fdDetails), teamDataOutage(a), noStats)
       /\ fotmobData' = updateFotMobData(fotmobData, players, now, recentOutage(a),
                                         lastStatsIn(scenarioOutage(a)),
                                         lineupStatsIn(scenarioOutage(a)),
                                         teamDataOutage(a))
       /\ fotmobCacheFile' =
            IF fotmobUpdatedCount(fotmobData, players, now, recentOutage(a),
                                  lastStatsIn(scenarioOutage(a)),
                                  lineupStatsIn(scenarioOutage(a)),
                                  teamDataOutage(a)) > 0
            THEN fotmobData' ELSE fotmobCacheFile
       /\ lastGameData' = lastGameOutage(a, fotmobData')
       /\ nextGameData' = updateNextGameData(nextGameData, players, now,
                                             teamDataOutage(a),
                                             fetchedUnder(a, fdAhead))
       /\ responses' =
            Some([answers |-> a,
                  runs |-> IF responses = Null THEN 1 ELSE Val(responses).runs + 1])
  /\ nextGamesCacheFile' =
       IF teamsNeedingRefresh(nextGameData, players, now) = << >>
       THEN nextGamesCacheFile ELSE nextGameData'
  /\ UNCHANGED <<players, fdToday, fdDetails, fmVars, fmRecent, now, fdRecent,
                 manualStats, fdAhead, cycles, exposed>>
  /\ UNCHANGED notOutage

\* Football-Data.org: the list of today changes
OutageTodayChanges ==
  /\ \E l \in OutageTodayLists : fdToday # l /\ fdToday' = l
  /\ responses' = Null
  /\ UNCHANGED <<players, matchData, fdDetails, fmVars, lastVars, cycleVars, notOutage>>

\* Football-Data.org: the list of the last ten days changes
OutageRecentChanges ==
  /\ \E l \in OutageRecentLists : fdRecent # l /\ fdRecent' = l
  /\ responses' = Null
  /\ UNCHANGED <<fmRecent, now, lastGameData, fotmobData, fotmobCacheFile, manualStats>>
  /\ UNCHANGED <<todayVars, fmVars, cycleVars, notOutage>>

\* Football-Data.org: the list of the next two weeks changes
OutageAheadChanges ==
  /\ \E l \in AheadFixtureLists : fdAhead # l /\ fdAhead' = l
  /\ responses' = Null
  /\ UNCHANGED <<nextGameData, nextGamesCacheFile, cycles, exposed>>
  /\ UNCHANGED <<todayVars, fmVars, lastVars, notOutage>>

NextOutage ==
  OutagePass \/ OutageTodayChanges \/ OutageRecentChanges \/ OutageAheadChanges

SpecOutage == InitOutage /\ [][NextOutage]_vars

\* a step of SpecOutage is a pass
isOutagePass == responses' # Null /\ responses' # responses

\* the request for the list failed, or no fixture of the list has the team
\* on one side
noFixtureFor(teamName, listOk, matches) ==
  \/ ~listOk
  \/ \A i \in 1..Len(matches) :
       isHomeOf(matches[i].homeTeam, matches[i].awayTeam, teamName) = Null

\* C28 as stated: in a pass in which the fixture query fails or no fixture
\* matches the team of a player, the player's previously stored TodayMatch,
\* LastGame and NextGame are left unchanged (no stage throws: every pass
\* completes).
C28_FailedQueryLeavesRecords ==
  [][ isOutagePass =>
        LET a == Val(responses').answers
        IN \A id \in PlayerIds :
             /\ (matchData[id] # Null
                 /\ noFixtureFor(players[id].team, a.listOk, fdToday))
                  => matchData'[id] = matchData[id]
             /\ (lastGameData[id] # Null
                 /\ noFixtureFor(players[id].team, a.listOk, fdRecent))
                  => lastGameData'[id] = lastGameData[id]
             /\ (nextGameData[id] # Null
                 /\ noFixtureFor(players[id].team, a.listOk, fdAhead))
                  => nextGameData'[id] = nextGameData[id] ]_vars

\* C28, amended: in such a pass updateMatchData leaves the player's
\* TodayMatch unchanged, no record of the player is cleared, and when the
\* requests to FotMob fail as well all three records are left unchanged.
C28_FailedQueriesLeaveRecords ==
  [][ isOutagePass =>
        LET a == Val(responses').answers
        IN \A id \in PlayerIds :
             /\ noFixtureFor(players[id].team, a.listOk, fdToday)
                  => /\ updateMatchData(matchData, players, fetchedUnder(a, fdToday),
                                        Some(fdDetails))[id] = matchData[id]
                     /\ matchData[id] # Null => matchData'[id] # Null
                     /\ ~a.fotmobOk => matchData'[id] = matchData[id]
             /\ noFixtureFor(players[id].team, a.listOk, fdRecent)
                  => /\ lastGameData[id] # Null => lastGameData'[id] # Null
                     /\ ~a.fotmobOk => lastGameData'[id] = lastGameData[id]
             /\ noFixtureFor(players[id].team, a.listOk, fdAhead)
                  => /\ nextGameData[id] # Null => nextGameData'[id] # Null
                     /\ ~a.fotmobOk => nextGameData'[id] = nextGameData[id] ]_vars

\* a pass in which every request failed has run over the stored records of
\* Quinn Sullivan
C28_RecordsKeptThroughOutage ==
  /\ responses # Null
  /\ ~Val(responses).answers.listOk /\ ~Val(responses).answers.fotmobOk
  /\ matchData[1] # Null /\ lastGameData[1] # Null /\ nextGameData[1] # Null

\* C29: after a pass that changes this.fotmobData (entries recording
\* non-participation included) the FotMob cache file equals the map, and
\* after a pass that changes this.nextGameData the next-games cache file
\* equals the map.
C29_CacheFilesFollowTheMaps ==
  [][ isOutagePass =>
        /\ fotmobData' # fotmobData => fotmobCacheFile' = fotmobData'
        /\ nextGameData' # nextGameData => nextGamesCacheFile' = nextGameData' ]_vars

(***************************************************************************)
(* SpecMinutes: calculateMinutesPlayed on every event list of a player up  *)
(* to MaxEvents events, and started as 466-470 derive it from the events   *)
(***************************************************************************)
MaxEvents == 2

notMin == <<teamVars, todayVars, fmVars, schedVars, lastVars, cacheVars, pipeVars, cycleVars>>

EventTypes == {"sub_in", "sub_out", "goal", "yellow"}
EventMinutes == {60, 85}
MatchMinutes == {70, 90}

PlayerEvent == [type : EventTypes, minute : EventMinutes]

EventLists == UNION { [1..n -> PlayerEvent] : n \in 0..MaxEvents }

\* 466-470 with no lineup data: started of a player with these events
startedOfEvents(playerEvents) ==
  IF Len(playerEvents) = 0 THEN Null
  ELSE IF hasEventOfType(playerEvents, "sub_in") THEN Some(FALSE)
  ELSE Some(TRUE)

InitMinutes ==
  /\ TeamIdle /\ TodayIdle /\ FmIdle /\ SchedIdle /\ LastIdle /\ CacheIdle
  /\ PipeIdle /\ CycleIdle
  /\ cmEvents \in EventLists
  /\ cmMatchMinute \in MatchMinutes
  /\ cmResult = Null

\* one call calculateMinutesPlayed(events, matchMinute)
CallCalculateMinutesPlayed ==
  /\ cmResult = Null
  /\ cmResult' = Some([minutesPlayed |-> calculateMinutesPlayed(cmEvents, cmMatchMinute),
                       started |-> startedOfEvents(cmEvents)])
  /\ UNCHANGED <<cmEvents, cmMatchMinute, notMin>>

\* the next call, with other arguments
NextMinutesArguments ==
  /\ cmResult # Null
  /\ cmEvents' \in EventLists
  /\ cmMatchMinute' \in MatchMinutes
  /\ cmResult' = Null
  /\ UNCHANGED notMin

NextMinutes == CallCalculateMinutesPlayed \/ NextMinutesArguments

SpecMinutes == InitMinutes /\ [][NextMinutes]_vars

\* the minutes of the events of one type, in the order of the list
minutesOfType(events, type) ==
  [i \in 1..countEvents(events, type) |->
     SelectSeq(events, LAMBDA e : e.type = type)[i].minute]

\* C25: calculateMinutesPlayed follows the event rules on every event list
\* and match-end minute: with a sub_in and a sub_out the result is the
\* sub_out minute minus the sub_in minute ([sub_in@60, sub_out@85] gives 25,
\* with started false); with a sub_in only it is the match-end minute minus
\* the sub_in minute; with a sub_out only it is the sub_out minute; with no
\* substitution but some other event it is the match-end minute.
C25_MinutesFollowTheEventRules ==
  cmResult # Null =>
    LET ins == minutesOfType(cmEvents, "sub_in")
        outs == minutesOfType(cmEvents, "sub_out")
        minutes == Val(cmResult).minutesPlayed
    IN /\ (ins # << >> /\ outs # << >>) => minutes = outs[1] - ins[1]
       /\ cmEvents = <<[type |-> "sub_in", minute |-> 60],
                       [type |-> "sub_out", minute |-> 85]>>
            => minutes = 25 /\ Val(cmResult).started = Some(FALSE)
       /\ (ins # << >> /\ outs = << >>) => minutes = cmMatchMinute - ins[1]
       /\ (ins = << >> /\ outs # << >>) => minutes = outs[1]
       /\ (ins = << >> /\ outs = << >> /\ cmEvents # << >>) => minutes = cmMatchMinute

\* the call with [sub_in@60, sub_out@85] has returned
C25_SubInAndSubOutCalculated ==
  /\ cmResult # Null
  /\ cmEvents = <<[type |-> "sub_in", minute |-> 60],
                  [type |-> "sub_out", minute |-> 85]>>

(***************************************************************************)
(* SpecTeam: teamMatches on every pair of names                            *)
(***************************************************************************)
InitTeam ==
  /\ tmApi \in TeamNames
  /\ tmOur \in TeamNames
  /\ tmRes = Null
  /\ MinIdle /\ TodayIdle /\ FmIdle /\ SchedIdle /\ LastIdle /\ CacheIdle
  /\ PipeIdle /\ CycleIdle

\* one call teamMatches(apiTeamName, ourTeamName)
CallTeamMatches ==
  /\ tmRes = Null
  /\ tmRes' = Some(teamMatches(tmApi, tmOur))
  /\ UNCHANGED <<tmApi, tmOur>>
  /\ UNCHANGED notTeam

NextTeam == CallTeamMatches

\* C7: teamMatches("West Bromwich Albion", "West Ham") is false and
\* teamMatches("1. FC Koeln" with the umlaut, "FC Koln") is true.
C7_WestBromVsWestHam ==
  tmRes # Null =>
    /\ (tmApi = WestBromwichAlbion /\ tmOur = WestHam => Val(tmRes) = FALSE)
    /\ (tmApi = FCKoelnUmlaut /\ tmOur = FCKoln => Val(tmRes) = TRUE)

\* C8: teamMatches is symmetric: swapping the feed name and the roster name
\* never changes the result.
C8_TeamMatchesSymmetric ==
  tmRes # Null => Val(tmRes) = teamMatches(tmOur, tmApi)

\* fixtures between two different clubs: <<home, away>> in feed spelling
DerbyFixtures ==
  { <<ManchesterUnited, ManchesterCity>>, <<ManchesterCity, ManchesterUnited>>,
    <<BorussiaDortmund, BorussiaMgladbach>>,
    <<BorussiaMgladbach, BorussiaDortmund>>,
    <<ACMilan, InterMilan>>, <<InterMilan, ACMilan>> }

\* C31: for a roster name of two or more significant words teamMatches is
\* true only if the normalized names are equal or every significant roster
\* word has an equal-or-prefix word among the feed name's significant words;
\* "Borussia Dortmund" and "Borussia Moenchengladbach" do not match in either
\* order; and a roster team that matches one side of a fixture between two
\* different clubs does not match the other side as well.
C31_MultiWordRuleAndNoDoubleMatch ==
  tmRes # Null =>
    /\ LET apiWords == significantWords(normalizeWithSpaces(tmApi))
           ourWords == significantWords(normalizeWithSpaces(tmOur))
       IN (Len(ourWords) >= 2 /\ Val(tmRes)) =>
            \/ normalize(tmApi) = normalize(tmOur)
            \/ \A j \in 1..Len(ourWords) :
                 \E i \in 1..Len(apiWords) :
                   \/ apiWords[i] = ourWords[j]
                   \/ startsWith(apiWords[i], ourWords[j])
                   \/ startsWith(ourWords[j], apiWords[i])
    /\ ({tmApi, tmOur} = {BorussiaDortmund, BorussiaMgladbach}
          => Val(tmRes) = FALSE)
    /\ \A f \in DerbyFixtures :
         (tmApi = f[2] /\ teamMatches(f[1], tmOur)) => Val(tmRes) = FALSE

SpecTeam == InitTeam /\ [][NextTeam]_vars

SpecToday == InitToday /\ [][NextToday]_vars

====
